---- MODULE Spec2Model ----
(***************************************************************************)
(* Model of the bakery ordering core: the SQLite catalog (items, aliases,  *)
(* canonicalization rules), sales ingestion, the per-item model store and  *)
(* the forecast blender / batch floor.                                     *)
(*                                                                         *)
(* Item names are sequences of one-character strings so that trimming and  *)
(* pattern search are computed, not assumed.  A rule pattern is a single   *)
(* literal character; re.search(pat, alias) is "pat occurs in alias".      *)
(***************************************************************************)
EXTENDS Integers, Sequences, FiniteSets, TLC

VARIABLES
    dbFile,      \* DB_PATH exists on disk
    schema,      \* schema objects present in the database file
    config,      \* rows of config whose setting_name is canon_rule_N
    connected,   \* the caller holds a connection returned by get_conn()
    items,       \* rows of table items
    aliases,     \* rows of table item_aliases
    sales,       \* rows of table sales_data, in rowid order
    models,      \* rows of table models
    now,         \* wall clock, in ticks of 1/TicksPerSecond second
    trainings,   \* history: number of model fits so far; identifies the fitted artifact
    returned,    \* history: raw name -> id first returned by resolve_item_id (0 = never)
    last,        \* outcome of the last call
    settings,    \* numeric settings as generate_forecast reads them from config
    weather,     \* rows of table weather, in rowid order
    events,      \* rows of table events, in rowid order
    forecasts,   \* rows of table forecasts, in rowid order
    run,         \* history: the last generate_forecast call and the tables it built
    frame,       \* the per-item data frame of the trainer, and the predictor's df_future
    supplied,    \* history: date -> the weather value last handed to a refresh
    calls        \* per session: the resolve_item_id call in progress on its connection

vars == <<dbFile, schema, config, connected, items, aliases, sales, models, now, trainings,
          returned, last, settings, weather, events, forecasts, run, frame,
          supplied, calls>>

\* what the catalog, ingestion and trainer operations never touch
forecastVars == <<settings, weather, events, forecasts, run, frame, supplied, calls>>

----------------------------------------------------------------------------
(* Names *)

SP == " "

Range(s) == {s[i] : i \in 1..Len(s)}

RECURSIVE LStrip(_)
LStrip(s) == IF s # <<>> /\ Head(s) = SP THEN LStrip(Tail(s)) ELSE s

RECURSIVE RStrip(_)
RStrip(s) == IF s # <<>> /\ s[Len(s)] = SP THEN RStrip(SubSeq(s, 1, Len(s) - 1)) ELSE s

\* faulty variant: the name is not trimmed
Strip_None(s) == s

\* str.strip()
Strip(s) == RStrip(LStrip(s))

\* Raw names a caller may pass ("h r" ~ "Hot Choc R", "h l" ~ "Hot Choc L",
\* "h" ~ "Hot Chocolate", "c" ~ a name that is also a rule target).
RawNames ==
    { <<>>, <<SP>>, <<"h", "r">>, <<"h", "l">>, <<SP, "h", "r", SP>>, <<"h">>, <<"c">> }

Categories == {"none", "drinks"}

----------------------------------------------------------------------------
(* Schema and get_conn / _migrate *)

SchemaObjects ==
    {"items", "item_aliases", "item_id", "uq_sales_date_item", "models", "uq_models_item"}

\* A database file left by an earlier run or release: an index needs its column / table.
WellFormedSchema(s) ==
    /\ ("item_aliases" \in s) => ("items" \in s)
    /\ ("uq_sales_date_item" \in s) => ("item_id" \in s)
    /\ ("uq_models_item" \in s) => ("models" \in s)

\* the schemas a database file may have
ExistingSchemas == {s \in SUBSET SchemaObjects : WellFormedSchema(s)}

\* rows with the same (date, item_id), item_id not NULL
DupSales(rows) ==
    \E i, j \in 1..Len(rows) :
        i # j /\ rows[i].date = rows[j].date /\ rows[i].item_id = rows[j].item_id

\* _migrate: statements run in order, each committed as it runs (DDL outside a
\* transaction); the first failing statement raises and the rest is skipped.
Migrate(s, rows) ==
    LET s1 == s \cup {"items"}
        newAliases == "item_aliases" \notin s1
        s2 == s1 \cup {"item_aliases"}
        \* CREATE UNIQUE INDEX uq_sales_date_item runs only with the item_aliases creation
        uqFails == /\ newAliases
                   /\ "uq_sales_date_item" \notin s2
                   /\ ("item_id" \notin s2 \/ DupSales(rows))
        s3 == IF newAliases THEN s2 \cup {"uq_sales_date_item"} ELSE s2
        s4 == s3 \cup {"item_id"}
        \* the models table is created only inside the nested, never called, function
        modelsFails == "models" \notin s4
        s5 == s4 \cup {"uq_models_item"}
    IN  IF uqFails THEN [ok |-> FALSE, schema |-> s2]
        ELSE IF modelsFails THEN [ok |-> FALSE, schema |-> s4]
        ELSE [ok |-> TRUE, schema |-> s5]

----------------------------------------------------------------------------
(* Canonicalization rules *)

RECURSIVE Digits(_)
\* decimal digits of n >= 0, most significant first
Digits(n) == IF n < 10 THEN <<n>> ELSE Append(Digits(n \div 10), n % 10)

RECURSIVE LexLess(_, _)
\* string comparison of two digit strings (the common prefix "canon_rule_" cancels)
LexLess(a, b) ==
    IF a = <<>> THEN b # <<>>
    ELSE IF b = <<>> THEN FALSE
    ELSE IF Head(a) # Head(b) THEN Head(a) < Head(b)
    ELSE LexLess(Tail(a), Tail(b))

\* setting_name order used by sorted(rules.items())
RuleBefore(r1, r2) == LexLess(Digits(r1.id), Digits(r2.id))

RECURSIVE FirstCanonical(_, _)
\* the loop over sorted(rules.items()): canonical name of the first match, <<>> if none
FirstCanonical(rules, alias) ==
    IF rules = {} THEN <<>>
    ELSE LET r == CHOOSE x \in rules : \A y \in rules \ {x} : RuleBefore(x, y)
         IN  IF r.kind = "noarrow" THEN FirstCanonical(rules \ {r}, alias)
             ELSE IF r.kind = "badre" THEN <<>>
             ELSE IF r.pat \in Range(alias) THEN Strip(r.canon)
             ELSE FirstCanonical(rules \ {r}, alias)

Rule(n, p, c) == [id |-> n, kind |-> "rule", pat |-> p, canon |-> c]

\* DEFAULT_CONFIG: four rules; every target matches its own pattern
DefaultConfig ==
    { Rule(1, "h", <<"h">>), Rule(2, "t", <<"t">>),
      Rule(3, "g", <<"g">>), Rule(4, "f", <<"f">>) }

\* Configurations found in the config table of an existing database: rules whose
\* numbers sort alike as numbers and as strings; rules 2 and 10; and a row without
\* "=>" (skipped) before a rule and a pattern that does not compile (the loop is
\* abandoned when it is reached).
Configs ==
    { {Rule(1, "h", <<"h">>), Rule(2, "r", <<"c">>)},
      {Rule(2, "r", <<"c">>), Rule(10, "h", <<"x">>)},
      {[id |-> 1, kind |-> "noarrow", pat |-> "h", canon |-> <<"n">>], Rule(2, "r", <<"c">>),
       [id |-> 3, kind |-> "badre", pat |-> "(", canon |-> <<"b">>]} }

----------------------------------------------------------------------------
(* Quantities: the forecaster computes on floats; the model uses exact      *)
(* fractions n/d in lowest terms with d > 0                                *)

RECURSIVE Gcd(_, _)
Gcd(a, b) == IF b = 0 THEN a ELSE Gcd(b, a % b)

Abs(x) == IF x < 0 THEN -x ELSE x

Max(a, b) == IF a >= b THEN a ELSE b

Frac(n, d) == [n |-> n \div Gcd(Abs(n), d), d |-> d \div Gcd(Abs(n), d)]

Whole(i) == [n |-> i, d |-> 1]

Plus(a, b) == Frac(a.n * b.d + b.n * a.d, a.d * b.d)

Times(a, b) == Frac(a.n * b.n, a.d * b.d)

\* round(), np.round and Series.round: to the nearest integer, ties to even
RoundHalfEven(a) ==
    IF 2 * (a.n % a.d) < a.d THEN a.n \div a.d
    ELSE IF 2 * (a.n % a.d) > a.d THEN (a.n \div a.d) + 1
    ELSE IF (a.n \div a.d) % 2 = 0 THEN a.n \div a.d
    ELSE (a.n \div a.d) + 1

----------------------------------------------------------------------------
(* Settings and the forecast stores *)

\* cfg.get(name, default) of generate_forecast for a config table that has the
\* rows of DEFAULT_CONFIG, or lacks them (the defaults are the same values)
DefaultSettings ==
    [coef_temp |-> Frac(15, 100), coef_rain |-> Frac(10, 100), min_batch_size |-> 6,
     std_alert_threshold |-> Frac(3, 2), lookback_weeks |-> 26]

\* no generate_forecast call yet
NoRun ==
    [n |-> 0, status |-> "none", use_ml |-> FALSE, ml_blend |-> Whole(0), blended |-> {},
     yhat |-> <<>>, adjusted |-> <<>>, prefloor |-> <<>>, out |-> <<>>,
     today |-> 0, week_start |-> 0]

\* week_start=None
NoDate == 0

\* the day generate_forecast and the weather refreshes run on (a Sunday)
Today == 49

\* date.weekday(): 0 = Monday .. 6 = Sunday
PyWeekday(d) == (d - 1) % 7

\* faulty variant: a Monday is sent to the Monday a week later
NextMonday_AlwaysAhead(today) == today + (7 - PyWeekday(today))

\* next_monday(today)
NextMonday(today) == today + ((7 - PyWeekday(today)) % 7)

\* dates a weather refresh may carry: more than 60 days back, recent, coming
WeatherDays == {Today - 61, Today - 1, Today + 1}

\* no weather has been handed to a refresh
NoneSupplied == [d \in WeatherDays |-> <<>>]

\* connections that may run resolve_item_id at the same time
Sessions == {1, 2}

\* a session that is not inside resolve_item_id
IdleCall ==
    [pc |-> "idle", raw_name |-> <<>>, category |-> "none", alias |-> <<>>, canonical |-> <<>>,
     existing |-> 0, item_id |-> 0, result |-> 0, error |-> "none"]

NoCalls == [s \in Sessions |-> IdleCall]

\* _time_series_cv_mape has not run
NoCv == [done |-> FALSE, folds |-> {}, cv_mape |-> [defined |-> FALSE, value |-> Whole(0)]]

\* no data frame has been built
NoFrame == [made |-> FALSE, rows |-> <<>>, future |-> <<>>, cv |-> NoCv]

NoForecastYet ==
    /\ settings = DefaultSettings
    /\ weather = <<>>
    /\ events = <<>>
    /\ forecasts = <<>>
    /\ run = NoRun
    /\ frame = NoFrame
    /\ supplied = NoneSupplied
    /\ calls = NoCalls

----------------------------------------------------------------------------
(* Catalog helpers *)

NoId == 0

\* faulty variant: the alias lookup never finds a row
GetItemIdByAlias_Miss(als, alias) == NoId

\* _get_item_id_by_alias
GetItemIdByAlias(als, alias) ==
    IF \E a \in als : a.alias = alias
    THEN (CHOOSE a \in als : a.alias = alias).item_id
    ELSE NoId

\* faulty variant: the canonical lookup never finds a row
GetItemIdByCanonical_Miss(its, canonical) == NoId

\* _get_item_id_by_canonical
GetItemIdByCanonical(its, canonical) ==
    IF \E i \in its : i.canonical_name = canonical
    THEN (CHOOSE i \in its : i.canonical_name = canonical).id
    ELSE NoId

MaxOf(S) == IF S = {} THEN 0 ELSE CHOOSE m \in S : \A x \in S : x <= m

\* rowid given by SQLite to the next inserted item
NextItemId(its) == MaxOf({i.id : i \in its}) + 1

Outcome(its, als, st, id, how) ==
    [items |-> its, aliases |-> als, status |-> st, id |-> id, how |-> how]

\* faulty variant: foreign keys are not enforced on the connection
AliasInsertOk_NoForeignKey(its, als, alias, item_id) ==
    \A a \in als : a.alias # alias

\* INSERT INTO item_aliases: alias UNIQUE, item_id REFERENCES items(id) with foreign_keys=ON
AliasInsertOk(its, als, alias, item_id) ==
    /\ \A a \in als : a.alias # alias
    /\ \E i \in its : i.id = item_id

\* faulty variant: the item is committed without its alias
CreateItemWithAlias_NoAlias(its, als, canonical, alias, category, how) ==
    IF \E i \in its : i.canonical_name = canonical
    THEN Outcome(its, als, "IntegrityError", NoId, how)
    ELSE Outcome(its \cup {[id |-> NextItemId(its), canonical_name |-> canonical,
                           category |-> category]},
                 als, "ok", NextItemId(its), how)

\* faulty variant: the canonical name is recorded as an alias as well
CreateItemWithAlias_TwoAliases(its, als, canonical, alias, category, how) ==
    LET id == NextItemId(its)
    IN  Outcome(its \cup {[id |-> id, canonical_name |-> canonical, category |-> category]},
                als \cup {[alias |-> alias, item_id |-> id], [alias |-> canonical, item_id |-> id]},
                "ok", id, how)

\* _create_item_with_alias; a failing INSERT raises before the commit, nothing is written
CreateItemWithAlias(its, als, canonical, alias, category, how) ==
    IF \E i \in its : i.canonical_name = canonical
    THEN Outcome(its, als, "IntegrityError", NoId, how)     \* items.canonical_name UNIQUE
    ELSE LET id   == NextItemId(its)
             its2 == its \cup {[id |-> id, canonical_name |-> canonical, category |-> category]}
         IN  IF AliasInsertOk(its2, als, alias, id)
             THEN Outcome(its2, als \cup {[alias |-> alias, item_id |-> id]}, "ok", id, how)
             ELSE Outcome(its, als, "IntegrityError", NoId, how)

\* upsert_alias
UpsertAliasOutcome(its, als, alias, item_id) ==
    IF \E a \in als : a.alias = alias
    THEN Outcome(its, als, "ok", NoId, "kept")
    ELSE IF AliasInsertOk(its, als, alias, item_id)
    THEN Outcome(its, als \cup {[alias |-> alias, item_id |-> item_id]}, "ok", NoId, "added")
    ELSE Outcome(its, als, "IntegrityError", NoId, "added")

\* resolve_item_id; how = the step of the function that produced the result
ResolveItemId(its, als, cfg, raw_name, category) ==
    LET alias == Strip(raw_name)
        hit   == GetItemIdByAlias(als, alias)
        canonical == FirstCanonical(cfg, alias)
        existing  == GetItemIdByCanonical(its, canonical)
    IN  IF alias = <<>> THEN Outcome(its, als, "ValueError", NoId, "empty")
        ELSE IF hit # NoId THEN Outcome(its, als, "ok", hit, "alias")
        ELSE IF canonical # <<>>
        THEN IF existing # NoId
             THEN LET u == UpsertAliasOutcome(its, als, alias, existing)
                  IN  Outcome(u.items, u.aliases, u.status,
                              IF u.status = "ok" THEN existing ELSE NoId, "rule")
             ELSE CreateItemWithAlias(its, als, canonical, alias, category, "rule")
        ELSE CreateItemWithAlias(its, als, alias, alias, category, "fallback")

----------------------------------------------------------------------------
(* Bounds *)

MaxItems == 2

----------------------------------------------------------------------------
(* Actions of the catalog *)

\* outcome of a call: how = the step that produced it, again = the raw name had
\* already been resolved by an earlier call
Call(op, status, how, again) ==
    [op |-> op, status |-> status, how |-> how, again |-> again]

NoCall == Call("none", "ok", "none", FALSE)

\* the alias string passed to upsert_alias directly: a name the resolver also sees
AliasArgs == { <<"h", "r">> }

\* conn = get_conn()
GetConn ==
    LET m == Migrate(IF dbFile THEN schema ELSE {}, sales)
    IN  /\ dbFile' = TRUE
        /\ config' = IF dbFile THEN config ELSE DefaultConfig
        /\ schema' = m.schema
        /\ connected' = (connected \/ m.ok)
        /\ last' = Call("get_conn", IF m.ok THEN "ok" ELSE "OperationalError", "none", FALSE)
        /\ UNCHANGED <<items, aliases, sales, models, now, trainings, returned>>
        /\ UNCHANGED forecastVars

\* resolve_item_id(conn, raw_name, category)
Resolve(raw_name, category) ==
    LET o == ResolveItemId(items, aliases, config, raw_name, category)
    IN  /\ connected
        /\ Cardinality(items) < MaxItems \/ o.items = items
        /\ items' = o.items
        /\ aliases' = o.aliases
        /\ returned' = IF o.status = "ok" /\ returned[raw_name] = NoId
                       THEN [returned EXCEPT ![raw_name] = o.id]
                       ELSE returned
        /\ last' = Call("resolve", o.status, o.how, returned[raw_name] # NoId)
        /\ UNCHANGED <<dbFile, schema, config, connected, sales, models, now, trainings>>
        /\ UNCHANGED forecastVars

\* upsert_alias(conn, alias, item_id)
UpsertAlias(alias, item_id) ==
    LET o == UpsertAliasOutcome(items, aliases, alias, item_id)
    IN  /\ connected
        /\ items' = o.items
        /\ aliases' = o.aliases
        /\ last' = Call("upsert_alias", o.status, o.how, FALSE)
        /\ UNCHANGED <<dbFile, schema, config, connected, sales, models, now, trainings, returned>>
        /\ UNCHANGED forecastVars

\* The state found at start-up: no database file yet, or a file left by an
\* earlier run or release, with rule rows cfgs may hold; all tables are empty.
InitWith(cfgs, schemas) ==
    /\ \/ dbFile = FALSE /\ schema = {} /\ config = {}
       \/ /\ dbFile = TRUE
          /\ schema \in schemas
          /\ config \in cfgs
    /\ connected = FALSE
    /\ items = {}
    /\ aliases = {}
    /\ sales = <<>>
    /\ models = {}
    /\ now = 0
    /\ trainings = 0
    /\ returned = [n \in RawNames |-> NoId]
    /\ last = NoCall
    /\ NoForecastYet

Init == InitWith(Configs, ExistingSchemas)

Next ==
    \/ GetConn
    \/ \E n \in RawNames, c \in Categories : Resolve(n, c)
    \/ \E n \in AliasArgs, i \in 1..(MaxItems + 1) : UpsertAlias(n, i)

Spec == Init /\ [][Next]_vars

----------------------------------------------------------------------------
(* Sales ingestion *)

MaxTableRows == 2
MaxSales == 2

SalesRow(d, n, q) == [date |-> d, item_name |-> n, quantity_sold |-> q, numeric |-> TRUE]

\* an empty cell of the item_name column, read as NaN
NoName == <<>>

\* Rows an uploaded table is made of: two names that a rule may group, a second
\* quantity and a second date for the first name, a blank name and an empty
\* name cell.
TableRows ==
    { SalesRow(1, <<"h", "r">>, 1), SalesRow(1, <<"h", "r">>, 2), SalesRow(2, <<"h", "r">>, 1),
      SalesRow(1, <<"h", "l">>, 1), SalesRow(1, <<SP>>, 1), SalesRow(1, NoName, 1),
      [SalesRow(1, <<"h", "l">>, 1) EXCEPT !.numeric = FALSE] }

RECURSIVE SeqsUpTo(_, _)
SeqsUpTo(S, n) ==
    IF n = 0 THEN {<<>>}
    ELSE LET shorter == SeqsUpTo(S, n - 1)
         IN  shorter \cup {Append(q, x) : q \in {t \in shorter : Len(t) = n - 1}, x \in S}

\* the table read from the file; columns = FALSE when a required column is missing
Tables ==
    {[columns |-> TRUE, rows |-> r] : r \in SeqsUpTo({x \in TableRows : x.numeric}, MaxTableRows)}
    \cup {[columns |-> TRUE, rows |-> <<x>>] : x \in {y \in TableRows : ~y.numeric}}
    \cup {[columns |-> FALSE, rows |-> <<>>]}

\* validate_sales: TRUE when the list of error messages is not empty
ValidateSalesErrors(t) ==
    \/ ~t.columns
    \/ \E i \in 1..Len(t.rows) : ~t.rows[i].numeric
    \/ Len(t.rows) = 0
    \/ \E i, j \in 1..Len(t.rows) :
          i # j /\ t.rows[i].date = t.rows[j].date /\ t.rows[i].item_name = t.rows[j].item_name

\* astype(str) of a name cell: NaN becomes the text "nan"
AsStr(name) == IF name = NoName THEN <<"n", "a", "n">> ELSE name

CacheGet(cache, key) == (CHOOSE e \in cache : e[1] = key)[2]

RECURSIVE ResolveRows(_, _, _, _, _, _)
\* df["item_name"].map(_resolve): rows in order, item_cache keyed by the trimmed
\* name; every resolve_item_id that writes also commits, so a later failure keeps
\* what the earlier rows created
ResolveRows(rows, its, als, cfg, cache, ids) ==
    IF rows = <<>> THEN [items |-> its, aliases |-> als, status |-> "ok", ids |-> ids]
    ELSE LET key == Strip(AsStr(Head(rows).item_name))
         IN  IF \E e \in cache : e[1] = key
             THEN ResolveRows(Tail(rows), its, als, cfg, cache, Append(ids, CacheGet(cache, key)))
             ELSE LET o == ResolveItemId(its, als, cfg, key, "none")
                  IN  IF o.status # "ok"
                      THEN [items |-> its, aliases |-> als, status |-> o.status, ids |-> ids]
                      ELSE ResolveRows(Tail(rows), o.items, o.aliases, cfg,
                                       cache \cup {<<key, o.id>>}, Append(ids, o.id))

\* the rows handed to executemany
NewSalesRows(rows, ids) ==
    [i \in 1..Len(rows) |->
        [date |-> rows[i].date, item_name |-> rows[i].item_name,
         quantity_sold |-> rows[i].quantity_sold, item_id |-> ids[i]]]

\* executemany(INSERT INTO sales_data ...): with uq_sales_date_item a row whose
\* (date, item_id) is already stored, or was inserted earlier in the batch, raises;
\* so does a row whose item_name is NaN, which SQLite binds as NULL (NOT NULL)
SalesInsertOk(sch, stored, new) ==
    /\ ("uq_sales_date_item" \in sch) => ~DupSales(stored \o new)
    /\ \A i \in 1..Len(new) : new[i].item_name # NoName

\* ingest_sales
IngestOutcome(dbf, sch, cfg, its, als, stored, t) ==
    LET unchanged == [dbFile |-> dbf, schema |-> sch, config |-> cfg,
                      items |-> its, aliases |-> als, sales |-> stored]
        m    == Migrate(IF dbf THEN sch ELSE {}, stored)
        cfg1 == IF dbf THEN cfg ELSE DefaultConfig
        opened == [unchanged EXCEPT !.dbFile = TRUE, !.schema = m.schema, !.config = cfg1]
        r    == ResolveRows(t.rows, its, als, cfg1, {}, <<>>)
        resolved == [opened EXCEPT !.items = r.items, !.aliases = r.aliases]
        new  == NewSalesRows(t.rows, r.ids)
    IN  IF ValidateSalesErrors(t)
        THEN [state |-> unchanged, status |-> "errors", how |-> "validate"]
        ELSE IF ~m.ok
        THEN [state |-> opened, status |-> "OperationalError", how |-> "get_conn"]
        ELSE IF r.status # "ok"
        THEN [state |-> resolved, status |-> r.status, how |-> "resolve"]
        ELSE IF ~SalesInsertOk(m.schema, stored, new)
        THEN [state |-> resolved, status |-> "IntegrityError", how |-> "insert"]
        ELSE [state |-> [resolved EXCEPT !.sales = stored \o new], status |-> "ok", how |-> "insert"]

\* ingest_sales(file_path)
IngestSales(t) ==
    \E o \in {IngestOutcome(dbFile, schema, config, items, aliases, sales, t)} :
        /\ Len(o.state.sales) <= MaxSales
        /\ Cardinality(o.state.items) <= MaxItems
        /\ dbFile' = o.state.dbFile
        /\ schema' = o.state.schema
        /\ config' = o.state.config
        /\ items' = o.state.items
        /\ aliases' = o.state.aliases
        /\ sales' = o.state.sales
        /\ last' = Call("ingest_sales", o.status, o.how, FALSE)
        /\ UNCHANGED <<connected, models, now, trainings, returned>>
        /\ UNCHANGED forecastVars

NextIngest == \E t \in Tables : IngestSales(t)

\* rule rows of the databases that receive uploads
IngestConfigs ==
    { {Rule(1, "h", <<"h">>), Rule(2, "r", <<"c">>)},
      {[id |-> 1, kind |-> "badre", pat |-> "(", canon |-> <<"b">>], Rule(2, "r", <<"c">>)} }

InitIngest == InitWith(IngestConfigs, ExistingSchemas)

SpecIngest == InitIngest /\ [][NextIngest]_vars

----------------------------------------------------------------------------
(* Per-item regression trainer *)

MinTrainRows == 20
TicksPerSecond == 2
MaxTicks == 4
MaxTrainings == 3
MaxHistoryDays == 23

\* Days are numbered from a Monday: day 1 is a Monday, day 7 a Sunday.
\* STRFTIME('%w', date): 0 = Sunday .. 6 = Saturday
SqlWeekday(d) == d % 7

\* datetime.now().isoformat(timespec="seconds"): the clock cut to whole seconds
IsoSeconds(t) == t \div TicksPerSecond

\* one sales row a day for the item, on days 1..n
DailyHistory(item_id, name, n) ==
    [d \in 1..n |-> [date |-> d, item_name |-> name, quantity_sold |-> 1 + (d % 3),
                     item_id |-> item_id]]

\* _fetch_item_history: the item's rows, ordered by date
FetchItemHistory(rows, item_id) == SelectSeq(rows, LAMBDA r : r.item_id = item_id)

\* faulty variant: Sunday rows are kept
UsableRows_All(h) == h

\* _prepare_xy: Sunday rows are dropped
UsableRows(h) == SelectSeq(h, LAMBDA r : SqlWeekday(r.date) # 0)

\* INSERT INTO models ... ON CONFLICT(item_id) DO UPDATE
UpsertModel(rows, row) == {m \in rows : m.item_id # row.item_id} \cup {row}

\* train_model_for_item
TrainOutcome(sch, rows, mods, item_id, artifact, t) ==
    LET h == FetchItemHistory(rows, item_id)
        n == Len(UsableRows(h))
    IN  IF Len(h) = 0 THEN [models |-> mods, saved |-> FALSE, n_samples |-> 0, how |-> "empty"]
        ELSE IF n < MinTrainRows
        THEN [models |-> mods, saved |-> FALSE, n_samples |-> n, how |-> "few"]
        ELSE [models |-> UpsertModel(mods, [item_id |-> item_id, artifact |-> artifact,
                                            n_samples |-> n, updated_at |-> IsoSeconds(t)]),
              saved |-> TRUE, n_samples |-> n, how |-> "fit"]

\* train_model_for_item(conn, item_id); fitting takes at least one tick
TrainModelForItem(item_id) ==
    LET o == TrainOutcome(schema, sales, models, item_id, trainings + 1, now + 1)
    IN  /\ connected
        /\ "uq_models_item" \in schema
        /\ now < MaxTicks
        /\ trainings < MaxTrainings
        /\ models' = o.models
        /\ now' = now + 1
        /\ trainings' = IF o.saved THEN trainings + 1 ELSE trainings
        /\ last' = Call("train", IF o.saved THEN "saved" ELSE "unsaved", o.how,
                        \E m \in models : m.item_id = item_id)
        /\ UNCHANGED <<dbFile, schema, config, connected, items, aliases, sales, returned>>
        /\ UNCHANGED forecastVars

\* time passes
Tick ==
    /\ now < MaxTicks
    /\ now' = now + 1
    /\ UNCHANGED <<dbFile, schema, config, connected, items, aliases, sales, models, trainings,
                   returned, last>>
    /\ UNCHANGED forecastVars

TrainItems == {1, 2}

\* A database in use: get_conn() has succeeded, and items 1 and 2 have been
\* ingested with one row a day for n1 and n2 days.
InitTrain ==
    /\ dbFile = TRUE
    /\ schema \in {SchemaObjects, SchemaObjects \ {"uq_sales_date_item"}}
    /\ config = DefaultConfig
    /\ connected = TRUE
    /\ items = {[id |-> 1, canonical_name |-> <<"h">>, category |-> "none"],
                [id |-> 2, canonical_name |-> <<"m">>, category |-> "none"]}
    /\ aliases = {[alias |-> <<"h">>, item_id |-> 1], [alias |-> <<"m">>, item_id |-> 2]}
    /\ \E n1, n2 \in {0, MaxHistoryDays - 1, MaxHistoryDays} :
          sales = DailyHistory(1, <<"h">>, n1) \o DailyHistory(2, <<"m">>, n2)
    /\ models = {}
    /\ now = 0
    /\ trainings = 0
    /\ returned = [n \in RawNames |-> NoId]
    /\ last = NoCall
    /\ NoForecastYet

NextTrain ==
    \/ \E i \in TrainItems : TrainModelForItem(i)
    \/ Tick

SpecTrain == InitTrain /\ [][NextTrain]_vars

\* C8 (as claimed): a successful training leaves exactly one model row for
\* the item, holding the new artifact; when the item already had a model, the
\* new row's updated_at is strictly greater than the replaced row's.
C8_ModelUpsert ==
    [][ (last'.op = "train" /\ last'.status = "saved") =>
          /\ \A m1, m2 \in models' : m1.item_id = m2.item_id => m1 = m2
          /\ \E m \in models' : m.artifact = trainings'
          /\ \A old \in models : \A new \in models' :
                (new.item_id = old.item_id /\ new.artifact # old.artifact)
                    => new.updated_at > old.updated_at ]_vars

----------------------------------------------------------------------------
(* Rolling features of the trainer *)

MaxObs == 4

\* np.nan
NaN == [defined |-> FALSE, value |-> Whole(0)]

Num(q) == [defined |-> TRUE, value |-> q]

RECURSIVE SumSeq(_)
SumSeq(q) == IF q = <<>> THEN 0 ELSE Head(q) + SumSeq(Tail(q))

\* rolling(window, min_periods).mean(): at j the mean of the last window values
\* up to and including j, NaN while fewer than min_periods values are there
RollingMean(q, window, min_periods) ==
    [j \in 1..Len(q) |->
        IF j < min_periods THEN NaN
        ELSE Num(Frac(SumSeq(SubSeq(q, Max(1, j - window + 1), j)),
                      j - Max(1, j - window + 1) + 1))]

\* faulty variant: the series is not shifted
Shift1_None(s) == s

\* shift(1): every value moves one position down, the first becomes NaN
Shift1(s) == [j \in 1..Len(s) |-> IF j = 1 THEN NaN ELSE s[j - 1]]

\* positions of the rows of weekday wd, in frame order
Mask(rows, wd) ==
    SelectSeq([i \in 1..Len(rows) |-> i], LAMBDA i : rows[i].weekday = wd)

\* position of row i among the rows of its weekday
RankIn(rows, i) == Cardinality({j \in 1..i : rows[j].weekday = rows[i].weekday})

\* the masked column y as a sequence
MaskedY(rows, wd) == [n \in 1..Len(Mask(rows, wd)) |-> rows[Mask(rows, wd)[n]].y]

\* _make_rolling_features: for every weekday the shifted rolling means of its
\* rows are written back to those rows
MakeRollingFeaturesOf(rows) ==
    [i \in 1..Len(rows) |->
        [rows[i] EXCEPT
            !.last4_same_wd = Shift1(RollingMean(MaskedY(rows, rows[i].weekday), 4, 2))[RankIn(rows, i)],
            !.last8_same_wd = Shift1(RollingMean(MaskedY(rows, rows[i].weekday), 8, 3))[RankIn(rows, i)]]]

\* a row of the frame returned by _fetch_item_history
FrameRow(weekday, y) ==
    [weekday |-> weekday, y |-> y, last4_same_wd |-> NaN, last8_same_wd |-> NaN]

\* ten observations 1..10 of one weekday
SeriesOneToTen == [i \in 1..10 |-> FrameRow(1, i)]

\* the same observations with rows of another weekday in between
SeriesInterleaved ==
    [i \in 1..20 |-> IF i % 2 = 1 THEN FrameRow(1, (i + 1) \div 2) ELSE FrameRow(2, 7)]

\* histories handed to the trainer: the two long series, and every short
\* history (not empty) over two weekdays and two quantities
Frames ==
    {SeriesOneToTen, SeriesInterleaved}
    \cup (SeqsUpTo({FrameRow(wd, y) : wd \in {1, 2}, y \in {1, 4}}, MaxObs) \ {<<>>})

\* df = _make_rolling_features(df)
MakeRollingFeatures ==
    /\ ~frame.made
    /\ frame' = [frame EXCEPT !.made = TRUE, !.rows = MakeRollingFeaturesOf(frame.rows)]
    /\ UNCHANGED <<dbFile, schema, config, connected, items, aliases, sales, models, now,
                   trainings, returned, last, settings, weather, events, forecasts, run,
                   supplied, calls>>

\* train_model_for_item has fetched the history of an item
InitFeatures ==
    /\ dbFile = TRUE
    /\ schema = SchemaObjects \ {"uq_sales_date_item"}
    /\ config = DefaultConfig
    /\ connected = TRUE
    /\ items = {[id |-> 1, canonical_name |-> <<"h">>, category |-> "none"]}
    /\ aliases = {[alias |-> <<"h">>, item_id |-> 1]}
    /\ sales = <<>>
    /\ models = {}
    /\ now = 0
    /\ trainings = 0
    /\ returned = [n \in RawNames |-> NoId]
    /\ last = NoCall
    /\ settings = DefaultSettings
    /\ weather = <<>>
    /\ events = <<>>
    /\ forecasts = <<>>
    /\ run = NoRun
    /\ \E rows \in Frames : frame = [made |-> FALSE, rows |-> rows, future |-> <<>>, cv |-> NoCv]
    /\ supplied = NoneSupplied
    /\ calls = NoCalls

\* columns wd_1..wd_6 of a row whose weekday value is weekday: get_dummies makes
\* column wd_v for every value v in the frame, a feature column that is
\* missing is added as 0
WeekdayOneHot(weekday) == [c \in 1..6 |-> IF c = weekday THEN 1 ELSE 0]

\* the row of X that predict_next_week_for_item builds for a date: weekday is
\* date.dt.weekday; df_future has no last4_same_wd / last8_same_wd column, so
\* both are added as 0.0
FutureRow(date) ==
    [weekday |-> PyWeekday(date), wd |-> WeekdayOneHot(PyWeekday(date)),
     last4_same_wd |-> Num(Whole(0)), last8_same_wd |-> Num(Whole(0))]

\* predict_next_week_for_item(conn, item_id, week_start): the rows of X
PredictNextWeekForItem ==
    /\ frame.future = <<>>
    /\ frame' = [frame EXCEPT !.future = [d \in 1..6 |-> FutureRow(NextMonday(Today) + d - 1)]]
    /\ UNCHANGED <<dbFile, schema, config, connected, items, aliases, sales, models, now,
                   trainings, returned, last, settings, weather, events, forecasts, run,
                   supplied, calls>>

NextFeatures == MakeRollingFeatures \/ PredictNextWeekForItem

SpecFeatures == InitFeatures /\ [][NextFeatures]_vars

----------------------------------------------------------------------------
(* Rolling-origin cross-validation of the trainer *)

MaxSamples == 34

\* np.linspace(0.6, 0.9, 3)
FoldSizes == << Frac(3, 5), Frac(3, 4), Frac(9, 10) >>

\* k = int(n * frac)
FoldStart(n, frac) == (n * frac.n) \div frac.d

\* if k < 10 or k >= n: continue
Skipped(n, k) == k < 10 \/ k >= n

\* the folds that add a value to mape_list
CountedFolds(n) == {i \in 1..3 : ~Skipped(n, FoldStart(n, FoldSizes[i]))}

RECURSIVE SumFracs(_)
SumFracs(q) == IF q = <<>> THEN Whole(0) ELSE Plus(Head(q), SumFracs(Tail(q)))

\* np.abs(true - pred) / np.abs(np.where(true == 0, 1.0, true))
AbsPctError(true, pred) == Frac(Abs(true - pred), IF true = 0 THEN 1 ELSE Abs(true))

\* mape of one fold: the mean of the errors of the rows k+1 .. n, times 100
FoldMape(y, k, pred) ==
    Times(Whole(100),
          Times(SumFracs([i \in 1..(Len(y) - k) |-> AbsPctError(y[k + i], pred)]),
                Frac(1, Len(y) - k)))

\* _time_series_cv_mape(X, y); pred[i] is what the pipeline fitted on the rows
\* before fold i predicts for its test rows
TimeSeriesCvMapeOf(y, pred) ==
    IF Len(y) < 30 \/ CountedFolds(Len(y)) = {} THEN NaN
    ELSE Num(Times(SumFracs([j \in 1..3 |->
                        IF j \in CountedFolds(Len(y))
                        THEN FoldMape(y, FoldStart(Len(y), FoldSizes[j]), pred[j])
                        ELSE Whole(0)]),
                   Frac(1, Cardinality(CountedFolds(Len(y))))))

\* the fitted pipeline is not modelled: what it predicts for the test rows
PredictedValues == {0, 10}

\* target columns of n samples: nothing sold, steady sales, rising sales
Targets(n) == { [i \in 1..n |-> 0], [i \in 1..n |-> 10], [i \in 1..n |-> i % 7] }

\* cv_mape = _time_series_cv_mape(X, y, splits=3) of train_model_for_item
TimeSeriesCvMape ==
    /\ ~frame.cv.done
    /\ \E pred \in [1..3 -> PredictedValues] :
       \E y \in {[i \in 1..Len(frame.rows) |-> frame.rows[i].y]} :
          frame' = [frame EXCEPT !.cv =
                      [done |-> TRUE,
                       folds |-> {[train |-> 1..FoldStart(Len(y), FoldSizes[i]),
                                   test |-> (FoldStart(Len(y), FoldSizes[i]) + 1)..Len(y),
                                   pred |-> pred[i]] : i \in CountedFolds(Len(y))},
                       cv_mape |-> TimeSeriesCvMapeOf(y, pred)]]
    /\ UNCHANGED <<dbFile, schema, config, connected, items, aliases, sales, models, now,
                   trainings, returned, last, settings, weather, events, forecasts, run,
                   supplied, calls>>

\* train_model_for_item has prepared X and y: at least 20 samples, Mon..Sat
InitCv ==
    /\ dbFile = TRUE
    /\ schema = SchemaObjects \ {"uq_sales_date_item"}
    /\ config = DefaultConfig
    /\ connected = TRUE
    /\ items = {[id |-> 1, canonical_name |-> <<"h">>, category |-> "none"]}
    /\ aliases = {[alias |-> <<"h">>, item_id |-> 1]}
    /\ sales = <<>>
    /\ models = {}
    /\ now = 0
    /\ trainings = 0
    /\ returned = [n \in RawNames |-> NoId]
    /\ last = NoCall
    /\ settings = DefaultSettings
    /\ weather = <<>>
    /\ events = <<>>
    /\ forecasts = <<>>
    /\ run = NoRun
    /\ \E n \in MinTrainRows..MaxSamples : \E y \in Targets(n) :
          frame = [made |-> TRUE, rows |-> [i \in 1..n |-> FrameRow(((i - 1) % 6) + 1, y[i])],
                   future |-> <<>>, cv |-> NoCv]
    /\ supplied = NoneSupplied
    /\ calls = NoCalls

NextCv == TimeSeriesCvMape

SpecCv == InitCv /\ [][NextCv]_vars

----------------------------------------------------------------------------
(* Baseline forecaster and forecast blender *)

MaxRuns == 2

\* columns mon..sat of the order sheet
Days == 1..6

\* _fetch_history: the rows inside the lookback window; item_key is the item_id
FetchHistory(stored, today, lookback_weeks) ==
    SelectSeq(stored, LAMBDA r : r.date >= today - 7 * lookback_weeks)

\* item_key: the item_id, or the item_name of a row whose item_id is NULL (a
\* row stored before sales_data had the column)
ItemKey(r) ==
    IF r.item_id = NoId THEN [id |-> NoId, name |-> r.item_name]
    ELSE [id |-> r.item_id, name |-> <<>>]

ItemKeys(h) == {ItemKey(h[i]) : i \in 1..Len(h)}

\* The keys that pass isinstance(key, (int, np.integer)).  A NULL item_id makes
\* the item_id column of the frame a float column (NaN), so the numeric keys
\* are then floats and none passes; name keys never pass.
IntegerKeys(h) ==
    IF \E i \in 1..Len(h) : h[i].item_id = NoId THEN {} ELSE ItemKeys(h)

RECURSIVE SortByDate(_)
\* sort_values("date"); rows of one date keep their order
SortByDate(s) ==
    IF s = <<>> THEN <<>>
    ELSE LET i == CHOOSE a \in 1..Len(s) :
                      \A b \in 1..Len(s) : s[a].date < s[b].date \/ (s[a].date = s[b].date /\ a <= b)
         IN  <<s[i]>> \o SortByDate(SubSeq(s, 1, i - 1) \o SubSeq(s, i + 1, Len(s)))

\* quantities of one (item, weekday) group, oldest first
Bucket(h, key, wd) ==
    LET rows == SortByDate(SelectSeq(h, LAMBDA r : ItemKey(r) = key /\ PyWeekday(r.date) = wd))
    IN  [i \in 1..Len(rows) |-> rows[i].quantity_sold]

\* faulty variant: the whole group is averaged
LastEight_All(q) == q

\* s.tail(8)
LastEight(q) == SubSeq(q, Max(1, Len(q) - 7), Len(q))

RECURSIVE EwNum(_)
\* sum of 2^(j-1) * q[j]: the newest observation weighs most
EwNum(q) == IF q = <<>> THEN 0 ELSE Head(q) + 2 * EwNum(Tail(q))

RECURSIVE Pow2(_)
Pow2(n) == IF n = 0 THEN 1 ELSE 2 * Pow2(n - 1)

\* ew_last8: s8.ewm(alpha=0.5).mean().iloc[-1], 0.0 for an empty group
EwLast8(q) ==
    IF q = <<>> THEN Whole(0)
    ELSE Frac(EwNum(LastEight(q)), Pow2(Len(LastEight(q))) - 1)

\* _weekday_baseline: item_key -> (mon..sat)
WeekdayBaseline(h) == [k \in ItemKeys(h) |-> [d \in Days |-> EwLast8(Bucket(h, k, d - 1))]]

\* name_map: display_name of the item's first row, the canonical name when the
\* row's item exists
DisplayName(its, h, key) ==
    IF \E it \in its : it.id = key.id
    THEN (CHOOSE it \in its : it.id = key.id).canonical_name
    ELSE SortByDate(SelectSeq(h, LAMBDA r : ItemKey(r) = key))[1].item_name

WeatherRow(date, has_temp, max_temp, has_rain, rain_mm) ==
    [date |-> date, has_temp |-> has_temp, max_temp |-> max_temp,
     has_rain |-> has_rain, rain_mm |-> rain_mm]

EventRow(date, event_type, uplift_pct) ==
    [date |-> date, event_type |-> event_type, uplift_pct |-> uplift_pct]

CountOn(rows, date) == Cardinality({i \in 1..Len(rows) : rows[i].date = date})

\* _load_week_weather: {weekday: (max_temp, rain_mm)}; of several rows of one
\* date the last one read stays in the dict
WeekWeather(w, date) ==
    w[CHOOSE i \in 1..Len(w) : w[i].date = date /\ \A j \in (i + 1)..Len(w) : w[j].date # date]

\* 1 + coef * (value - anchor) / 10
WeatherFactor(coef, value, anchor) == Plus(Whole(1), Times(coef, Frac(value - anchor, 10)))

\* (base[d] * factor).round()
ScaleRound(x, factor) == Whole(RoundHalfEven(Times(x, factor)))

\* faulty variant: a missing temperature is read as 0 degrees
TempScaled_Always(x, row, coef_temp) ==
    ScaleRound(x, WeatherFactor(coef_temp, IF row.has_temp THEN row.max_temp ELSE 0, 20))

TempScaled(x, row, coef_temp) ==
    IF row.has_temp THEN ScaleRound(x, WeatherFactor(coef_temp, row.max_temp, 20)) ELSE x

RainScaled(x, row, coef_rain) ==
    IF row.has_rain THEN ScaleRound(x, WeatherFactor(coef_rain, row.rain_mm, 1)) ELSE x

\* faulty variant: the frame is returned without the clip
ClipLower0_Off(x) == x

\* base.clip(lower=0)
ClipLower0(x) == IF x.n < 0 THEN Whole(0) ELSE x

\* the date among week_start .. week_start + 5 whose weekday is column d of the
\* sheet (mon = 1 .. sat = 6); NoDate when the six days leave that weekday out
ColumnDate(week_start, d) ==
    IF \E i \in 0..5 : PyWeekday(week_start + i) = d - 1
    THEN week_start + (CHOOSE i \in 0..5 : PyWeekday(week_start + i) = d - 1)
    ELSE NoDate

\* _apply_weather: ctx is keyed by the weekday of the rows read for the six dates
ApplyWeather(base, w, week_start, coef_temp, coef_rain) ==
    [k \in DOMAIN base |-> [d \in Days |->
        ClipLower0(IF CountOn(w, ColumnDate(week_start, d)) = 0 THEN base[k][d]
                   ELSE RainScaled(TempScaled(base[k][d], WeekWeather(w, ColumnDate(week_start, d)),
                                              coef_temp),
                                   WeekWeather(w, ColumnDate(week_start, d)), coef_rain))]]

RECURSIVE ApplyEventRows(_, _, _)
\* every event row of the date, in the order read, scales and rounds the day
ApplyEventRows(x, e, date) ==
    IF e = <<>> THEN x
    ELSE ApplyEventRows(IF Head(e).date = date
                        THEN ScaleRound(x, Plus(Whole(1), Frac(Head(e).uplift_pct, 100)))
                        ELSE x,
                        Tail(e), date)

\* _apply_events: a row read for a date whose weekday() is 6 indexes past the
\* six column names
EventsFail(e, week_start) ==
    \E i \in 1..Len(e) :
        /\ week_start <= e[i].date /\ e[i].date <= week_start + 5
        /\ PyWeekday(e[i].date) = 6

\* _apply_events: every row read scales the column of its weekday
ApplyEvents(base, e, week_start) ==
    [k \in DOMAIN base |-> [d \in Days |->
        ApplyEventRows(base[k][d], e, ColumnDate(week_start, d))]]

\* rows of the holiday query of predict_next_week_for_item
Qualifying(e) == SelectSeq(e, LAMBDA r : r.event_type = "public_holiday" \/ r.uplift_pct > 0)

\* rows of df_future for one date after the two left merges
FutureRowsOn(w, e, date) == Max(1, CountOn(w, date)) * Max(1, CountOn(Qualifying(e), date))

\* len(yhat) of predict_next_week_for_item
PredictRows(w, e, week_start) ==
    FutureRowsOn(w, e, week_start) + FutureRowsOn(w, e, week_start + 1)
    + FutureRowsOn(w, e, week_start + 2) + FutureRowsOn(w, e, week_start + 3)
    + FutureRowsOn(w, e, week_start + 4) + FutureRowsOn(w, e, week_start + 5)

\* faulty variant: every item is blended, with or without a model
Blendable_Every(mods, keys, w, e, week_start) == keys

\* the items generate_forecast blends: a model row exists and yhat has 6 values
Blendable(mods, keys, w, e, week_start) ==
    {k \in keys : (\E m \in mods : m.item_id = k.id) /\ PredictRows(w, e, week_start) = 6}

\* np.maximum(0, np.round(ml_blend * yhat + (1.0 - ml_blend) * arr)).astype(int)
Blend(ml_blend, y, x) ==
    Max(0, RoundHalfEven(Plus(Times(ml_blend, Whole(y)),
                              Times(Plus(Whole(1), Times(Whole(-1), ml_blend)), x))))

\* faulty variant: a quantity of zero is raised to the minimum batch as well
BatchFloor_NonNegative(x, min_batch) ==
    IF x.n >= 0 THEN Max(RoundHalfEven(x), min_batch) ELSE 0

\* max(int(round(x)), min_batch) if x > 0 else 0
BatchFloor(x, min_batch) ==
    IF x.n > 0 THEN Max(RoundHalfEven(x), min_batch) ELSE 0

\* dt.to_period("W-MON").start_time: such a week runs from Tuesday to Monday
WeekStartOf(d) == d - ((d - 2) % 7)

WeeksOf(h, key) == {WeekStartOf(h[i].date) : i \in {j \in 1..Len(h) : ItemKey(h[j]) = key}}

RECURSIVE SumQty(_)
SumQty(rows) == IF rows = <<>> THEN 0 ELSE Head(rows).quantity_sold + SumQty(Tail(rows))

\* weekly_totals of one item and week
WeekTotal(h, key, wk) ==
    SumQty(SelectSeq(h, LAMBDA r : ItemKey(r) = key /\ WeekStartOf(r.date) = wk))

RECURSIVE SumTotals(_, _, _, _)
\* sum of the weekly totals, or of their squares
SumTotals(h, key, weeks, squared) ==
    IF weeks = {} THEN 0
    ELSE LET wk == CHOOSE x \in weeks : TRUE
         IN  (IF squared THEN WeekTotal(h, key, wk) * WeekTotal(h, key, wk)
              ELSE WeekTotal(h, key, wk))
             + SumTotals(h, key, weeks \ {wk}, squared)

\* faulty variant: the boundary counts as beyond
Beyond_Inclusive(D, n, spread, thresh) ==
    D > 0 /\ D * D * (n - 1) * thresh.d * thresh.d >= thresh.n * thresh.n * n * spread

\* |dev| > thresh * wstd for dev = D / n, wstd^2 = spread / (n * (n - 1)), D > 0
Beyond(D, n, spread, thresh) ==
    D > 0 /\ D * D * (n - 1) * thresh.d * thresh.d > thresh.n * thresh.n * n * spread

\* The note of one item, without the percentage its text carries: n weeks of
\* history with sum S and sum of squares Q (wmean = S / n, wstd the sample
\* deviation, 0 for a single week), weekly_forecast wf.
NoteOf(n, S, Q, wf, thresh) ==
    IF S <= 0 THEN "No typical week yet"
    ELSE IF n >= 2 /\ n * Q - S * S > 0 /\ Beyond(n * wf - S, n, n * Q - S * S, thresh)
    THEN "Higher than usual"
    ELSE IF n >= 2 /\ n * Q - S * S > 0
            /\ (wf < 0 \/ Beyond(S - n * wf, n, n * Q - S * S, thresh))
    THEN "Lower than usual"
    ELSE "As expected"

NoteFor(h, key, qty, thresh) ==
    NoteOf(Cardinality(WeeksOf(h, key)),
           SumTotals(h, key, WeeksOf(h, key), FALSE),
           SumTotals(h, key, WeeksOf(h, key), TRUE),
           qty[1] + qty[2] + qty[3] + qty[4] + qty[5] + qty[6], thresh)

\* characters in code point order
Alphabet == <<SP, "c", "f", "g", "h", "l", "m", "o", "r", "t", "x">>

\* a name as the sequence of the positions of its characters in Alphabet
NameRank(name) ==
    [i \in 1..Len(name) |-> CHOOSE n \in 1..Len(Alphabet) : Alphabet[n] = name[i]]

\* order of the group keys: numbers ascending, then names ascending
KeyBefore(a, b) ==
    IF a.id # NoId /\ b.id # NoId THEN a.id < b.id
    ELSE IF a.id # NoId THEN TRUE
    ELSE IF b.id # NoId THEN FALSE
    ELSE LexLess(NameRank(a.name), NameRank(b.name))

RECURSIVE SortedKeys(_)
\* base.index: the item keys in ascending order
SortedKeys(S) ==
    IF S = {} THEN <<>>
    ELSE LET m == CHOOSE x \in S : \A y \in S \ {x} : KeyBefore(x, y)
         IN  <<m>> \o SortedKeys(S \ {m})

\* faulty variant: the timestamp is taken anew for every row
ForecastRows_StampPerRow(h, its, out, week_start, created_at, thresh) ==
    LET ks == SortedKeys(DOMAIN out)
    IN  [i \in 1..Len(ks) |->
            [week_start_date |-> week_start, item_name |-> DisplayName(its, h, ks[i]),
             qty |-> out[ks[i]], alerts |-> NoteFor(h, ks[i], out[ks[i]], thresh),
             created_at |-> created_at + i - 1]]

\* the rows inserted into forecasts, one per item
ForecastRows(h, its, out, week_start, created_at, thresh) ==
    LET ks == SortedKeys(DOMAIN out)
    IN  [i \in 1..Len(ks) |->
            [week_start_date |-> week_start, item_name |-> DisplayName(its, h, ks[i]),
             qty |-> out[ks[i]], alerts |-> NoteFor(h, ks[i], out[ks[i]], thresh),
             created_at |-> created_at]]

\* baseline after weather and events
Adjusted(h, w, e, st, week_start) ==
    ApplyEvents(ApplyWeather(WeekdayBaseline(h), w, week_start, st.coef_temp, st.coef_rain),
                e, week_start)

\* the frame before the batch floor: blended rows for the items in keys
PreFloor(adjusted, keys, ml_blend, y) ==
    [k \in DOMAIN adjusted |-> [d \in Days |->
        IF k \in keys THEN Whole(Blend(ml_blend, y[k][d], adjusted[k][d]))
        ELSE adjusted[k][d]]]

\* base[c].apply(...) for every column
Floored(prefloor, min_batch) ==
    [k \in DOMAIN prefloor |-> [d \in Days |-> BatchFloor(prefloor[k][d], min_batch)]]

\* what the fitted pipelines may return for Mon..Sat, rounded and clamped at 0
PredictionVectors == { <<0, 0, 0, 0, 0, 0>>, <<4, 9, 0, 7, 1, 0>> }

\* blend weights offered by the caller
BlendWeights == { Whole(0), Frac(1, 2), Whole(1) }

RunRecord(n, status, use_ml, ml_blend, keys, y, adjusted, prefloor, out, week_start) ==
    [n |-> n, status |-> status, use_ml |-> use_ml, ml_blend |-> ml_blend, blended |-> keys,
     yhat |-> y, adjusted |-> adjusted, prefloor |-> prefloor, out |-> out,
     today |-> Today, week_start |-> week_start]

\* get_config() / get_conn() raised
ForecastFails(m, use_ml, ml_blend, week_start) ==
    /\ dbFile' = TRUE
    /\ schema' = m.schema
    /\ config' = IF dbFile THEN config ELSE DefaultConfig
    /\ run' = RunRecord(run.n + 1, "OperationalError", use_ml, ml_blend, {}, <<>>, <<>>, <<>>, <<>>,
                        week_start)
    /\ last' = Call("generate_forecast", "OperationalError", "get_conn", FALSE)
    /\ UNCHANGED forecasts

\* hist.empty: an empty frame is returned and nothing is stored
ForecastEmpty(use_ml, ml_blend, week_start) ==
    /\ run' = RunRecord(run.n + 1, "empty", use_ml, ml_blend, {}, <<>>, <<>>, <<>>, <<>>,
                        week_start)
    /\ last' = Call("generate_forecast", "ok", "empty", FALSE)
    /\ UNCHANGED <<dbFile, schema, config, forecasts>>

\* _apply_events raised: the with-block is left before any INSERT
ForecastRaises(use_ml, ml_blend, week_start) ==
    /\ run' = RunRecord(run.n + 1, "IndexError", use_ml, ml_blend, {}, <<>>, <<>>, <<>>, <<>>,
                        week_start)
    /\ last' = Call("generate_forecast", "IndexError", "apply_events", FALSE)
    /\ UNCHANGED <<dbFile, schema, config, forecasts>>

\* the order sheet is built, floored and appended to forecasts
ForecastStored(h, use_ml, ml_blend, keys, y, adjusted, week_start) ==
    \E prefloor \in {PreFloor(adjusted, keys, ml_blend, y)} :
    \E out \in {Floored(prefloor, settings.min_batch_size)} :
        /\ forecasts' = forecasts \o ForecastRows(h, items, out, week_start,
                                                   IsoSeconds(now), settings.std_alert_threshold)
        /\ run' = RunRecord(run.n + 1, "ok", use_ml, ml_blend, keys, y, adjusted, prefloor, out,
                            week_start)
        /\ last' = Call("generate_forecast", "ok", "stored", FALSE)
        /\ UNCHANGED <<dbFile, schema, config>>

\* week_start = week_start or next_monday()
WeekStartOr(week_start, today) == IF week_start # NoDate THEN week_start ELSE NextMonday(today)

\* generate_forecast(week_start=given, use_ml=use_ml, ml_blend=ml_blend)
GenerateForecast(given, use_ml, ml_blend) ==
    /\ run.n < MaxRuns
    /\ now' = now + 1
    /\ UNCHANGED <<connected, items, aliases, sales, models, trainings, returned,
                   settings, weather, events, frame, supplied, calls>>
    /\ \E week_start \in {WeekStartOr(given, Today)} :
       \E m \in {Migrate(IF dbFile THEN schema ELSE {}, sales)} :
       \E h \in {FetchHistory(sales, Today, settings.lookback_weeks)} :
          IF ~m.ok THEN ForecastFails(m, use_ml, ml_blend, week_start)
          ELSE IF h = <<>> THEN ForecastEmpty(use_ml, ml_blend, week_start)
          ELSE IF EventsFail(events, week_start) THEN ForecastRaises(use_ml, ml_blend, week_start)
          ELSE \E adjusted \in {Adjusted(h, weather, events, settings, week_start)} :
               \E keys \in {IF use_ml
                            THEN Blendable(models, IntegerKeys(h), weather, events, week_start)
                            ELSE {}} :
               \E y \in [keys -> PredictionVectors] :
                   ForecastStored(h, use_ml, ml_blend, keys, y, adjusted, week_start)

\* recent rows of item 1: three Mondays without a sale
QuietMondays ==
    << [date |-> 29, item_name |-> <<"h">>, quantity_sold |-> 0, item_id |-> 1],
       [date |-> 36, item_name |-> <<"h">>, quantity_sold |-> 0, item_id |-> 1],
       [date |-> 43, item_name |-> <<"h">>, quantity_sold |-> 0, item_id |-> 1] >>

\* rows stored before sales_data had the item_id column: none, or one
LegacyRows ==
    { <<>>,
      << [date |-> 44, item_name |-> <<"o">>, quantity_sold |-> 5, item_id |-> NoId] >> }

\* rows of item 2, a new product
NewProductRows ==
    { <<>>,
      << [date |-> 43, item_name |-> <<"m">>, quantity_sold |-> 3, item_id |-> 2] >>,
      << [date |-> 43, item_name |-> <<"m">>, quantity_sold |-> 3, item_id |-> 2],
         [date |-> 44, item_name |-> <<"m">>, quantity_sold |-> 7, item_id |-> 2] >> }

\* weather rows of the target week: none; a Monday with the temperature only
\* and a Wednesday with the rainfall only; or two rows for the Monday
WeatherStores ==
    { <<>>,
      << WeatherRow(NextMonday(Today), TRUE, 30, FALSE, 0),
         WeatherRow(NextMonday(Today) + 2, FALSE, 0, TRUE, 11) >>,
      << WeatherRow(NextMonday(Today), TRUE, 20, TRUE, 1),
         WeatherRow(NextMonday(Today), TRUE, 30, TRUE, 5) >> }

\* events on the Tuesday of the target week: none, a holiday, a holiday and a fair
EventStores ==
    { <<>>,
      << EventRow(NextMonday(Today) + 1, "public_holiday", 50) >>,
      << EventRow(NextMonday(Today) + 1, "public_holiday", 50),
         EventRow(NextMonday(Today) + 1, "local", 20) >> }

\* min_batch_size of the config table: the default, or a smaller batch
MinBatchSizes == { DefaultSettings.min_batch_size, 2 }

\* A database in use on day Today: item 1 has been sold daily for n1 days (and
\* may have a fitted model when that is enough to fit one), item 2 is new.
InitForecast ==
    /\ dbFile = TRUE
    /\ schema = SchemaObjects \ {"uq_sales_date_item"}
    /\ config = DefaultConfig
    /\ connected = TRUE
    /\ items = {[id |-> 1, canonical_name |-> <<"h">>, category |-> "none"],
                [id |-> 2, canonical_name |-> <<"m">>, category |-> "none"]}
    /\ aliases = {[alias |-> <<"h">>, item_id |-> 1], [alias |-> <<"m">>, item_id |-> 2]}
    /\ \E n1 \in {0, MaxHistoryDays} :
       \E quiet \in {<<>>, QuietMondays} :
       \E fresh \in NewProductRows :
       \E old \in LegacyRows :
          /\ sales = old \o DailyHistory(1, <<"h">>, n1) \o quiet \o fresh
          /\ models \in {{}} \cup
                {{[item_id |-> 1, artifact |-> 1, n_samples |-> Len(UsableRows(s)),
                   updated_at |-> 0]} :
                     s \in {t \in {FetchItemHistory(sales, 1)} : Len(UsableRows(t)) >= MinTrainRows}}
    /\ now = 0
    /\ trainings = Cardinality(models)
    /\ returned = [n \in RawNames |-> NoId]
    /\ last = NoCall
    /\ settings \in {[DefaultSettings EXCEPT !.min_batch_size = b] : b \in MinBatchSizes}
    /\ weather \in WeatherStores
    /\ events \in EventStores
    /\ forecasts = <<>>
    /\ run = NoRun
    /\ frame = NoFrame
    /\ supplied = NoneSupplied
    /\ calls = NoCalls

NextForecast ==
    \E use_ml \in BOOLEAN, ml_blend \in BlendWeights : GenerateForecast(NoDate, use_ml, ml_blend)

SpecForecast == InitForecast /\ [][NextForecast]_vars

\* one sales row of the item on each of the dates, with the quantities in order
RowsOn(item_id, name, dates, qty) ==
    [i \in 1..Len(dates) |->
        [date |-> dates[i], item_name |-> name, quantity_sold |-> qty[i], item_id |-> item_id]]

\* Monday sales of item 1 in three weeks: weekly totals of mean 100, deviation 10
SteadyMondays == RowsOn(1, <<"h">>, <<29, 36, 43>>, <<90, 100, 110>>)

\* Tuesday sales of item 2: the same totals falling, nothing sold, a single
\* week, and two equal weeks
TuesdayHistories ==
    { RowsOn(2, <<"m">>, <<30, 37, 44>>, <<110, 100, 90>>),
      RowsOn(2, <<"m">>, <<30, 37, 44>>, <<0, 0, 0>>),
      RowsOn(2, <<"m">>, <<44>>, <<100>>),
      RowsOn(2, <<"m">>, <<37, 44>>, <<100, 100>>) }

\* events of the target week: a Monday uplift and a Tuesday markdown, or none
MondayEvents ==
    { <<>>, << EventRow(NextMonday(Today), "local", 10) >>,
            << EventRow(NextMonday(Today), "local", 11) >> }

TuesdayEvents ==
    { <<>>, << EventRow(NextMonday(Today) + 1, "local", -11) >>,
            << EventRow(NextMonday(Today) + 1, "local", -12) >> }

\* std_alert_threshold of the config table
AlertThresholds == { DefaultSettings.std_alert_threshold, Whole(1) }

\* A database in use on day Today whose items have a few weeks of history and
\* no model.
InitNotes ==
    /\ dbFile = TRUE
    /\ schema = SchemaObjects \ {"uq_sales_date_item"}
    /\ config = DefaultConfig
    /\ connected = TRUE
    /\ items = {[id |-> 1, canonical_name |-> <<"h">>, category |-> "none"],
                [id |-> 2, canonical_name |-> <<"m">>, category |-> "none"]}
    /\ aliases = {[alias |-> <<"h">>, item_id |-> 1], [alias |-> <<"m">>, item_id |-> 2]}
    /\ \E tue \in TuesdayHistories : sales = SteadyMondays \o tue
    /\ models = {}
    /\ now = 0
    /\ trainings = 0
    /\ returned = [n \in RawNames |-> NoId]
    /\ last = NoCall
    /\ settings \in {[DefaultSettings EXCEPT !.std_alert_threshold = t] : t \in AlertThresholds}
    /\ weather = <<>>
    /\ \E mon \in MondayEvents, tue \in TuesdayEvents : events = mon \o tue
    /\ forecasts = <<>>
    /\ run = NoRun
    /\ frame = NoFrame
    /\ supplied = NoneSupplied
    /\ calls = NoCalls

SpecNotes == InitNotes /\ [][NextForecast]_vars

\* ten Mondays of item 1, oldest first, with sales 1 .. 10
LongMondays ==
    RowsOn(1, <<"h">>, <<-20, -13, -6, 1, 8, 15, 22, 29, 36, 43>>, <<1, 2, 3, 4, 5, 6, 7, 8, 9, 10>>)

\* what else the sales table holds: nothing; a Sunday of item 1; sales of item
\* 2; Wednesdays of item 1 on which refunds outweighed sales; all of these
OtherSales ==
    { <<>>,
      RowsOn(1, <<"h">>, <<42>>, <<50>>),
      RowsOn(2, <<"m">>, <<36, 43>>, <<30, 40>>),
      RowsOn(1, <<"h">>, <<38, 45>>, <<-4, -4>>),
      RowsOn(1, <<"h">>, <<42>>, <<50>>) \o RowsOn(2, <<"m">>, <<36, 43>>, <<30, 40>>)
          \o RowsOn(1, <<"h">>, <<38, 45>>, <<-4, -4>>) }

\* weather of the coming days: none; a Monday so cold that the temperature
\* factor is negative and a wet, warm Wednesday; a Monday a week later
ComingWeather ==
    { <<>>,
      << WeatherRow(NextMonday(Today), TRUE, -90, TRUE, 6),
         WeatherRow(NextMonday(Today) + 2, TRUE, 30, TRUE, 11) >>,
      << WeatherRow(NextMonday(Today) + 7, TRUE, 30, FALSE, 0) >> }

\* events around the coming week: none; one on the Monday; one on the Saturday
\* before and one on the Monday after; a holiday on the Sunday
ComingEvents ==
    { <<>>,
      << EventRow(NextMonday(Today), "local", 25) >>,
      << EventRow(NextMonday(Today) - 2, "local", 30), EventRow(NextMonday(Today) + 7, "local", 20) >>,
      << EventRow(NextMonday(Today) + 6, "public_holiday", 15) >> }

\* week_start as the caller passes it: not at all, the coming Monday, the
\* Wednesday after it
WeekStarts == { NoDate, NextMonday(Today), NextMonday(Today) + 2 }

\* A database in use on day Today: item 1 has ten weeks of Monday sales.
InitWeek ==
    /\ dbFile = TRUE
    /\ schema = SchemaObjects \ {"uq_sales_date_item"}
    /\ config = DefaultConfig
    /\ connected = TRUE
    /\ items = {[id |-> 1, canonical_name |-> <<"h">>, category |-> "none"],
                [id |-> 2, canonical_name |-> <<"m">>, category |-> "none"]}
    /\ aliases = {[alias |-> <<"h">>, item_id |-> 1], [alias |-> <<"m">>, item_id |-> 2]}
    /\ \E other \in OtherSales : sales = LongMondays \o other
    /\ models = {}
    /\ now = 0
    /\ trainings = 0
    /\ returned = [n \in RawNames |-> NoId]
    /\ last = NoCall
    /\ settings = DefaultSettings
    /\ weather \in ComingWeather
    /\ events \in ComingEvents
    /\ forecasts = <<>>
    /\ run = NoRun
    /\ frame = NoFrame
    /\ supplied = NoneSupplied
    /\ calls = NoCalls

NextWeek == \E given \in WeekStarts : GenerateForecast(given, FALSE, Whole(0))

SpecWeek == InitWeek /\ [][NextWeek]_vars

----------------------------------------------------------------------------
(* Default target week *)

\* the days generate_forecast may be called on: day 1 is a Monday
MaxDate == 60

\* generate_forecast() on day run.today: week_start = week_start or next_monday()
DefaultWeekStart ==
    /\ run.status = "none" /\ run.week_start = NoDate
    /\ run' = [run EXCEPT !.week_start = WeekStartOr(NoDate, run.today)]
    /\ UNCHANGED <<dbFile, schema, config, connected, items, aliases, sales, models, now,
                   trainings, returned, last, settings, weather, events, forecasts, frame,
                   supplied, calls>>

\* generate_forecast is about to run on one of the days
InitCalendar ==
    /\ dbFile = TRUE
    /\ schema = SchemaObjects \ {"uq_sales_date_item"}
    /\ config = DefaultConfig
    /\ connected = TRUE
    /\ items = {}
    /\ aliases = {}
    /\ sales = <<>>
    /\ models = {}
    /\ now = 0
    /\ trainings = 0
    /\ returned = [n \in RawNames |-> NoId]
    /\ last = NoCall
    /\ settings = DefaultSettings
    /\ weather = <<>>
    /\ events = <<>>
    /\ forecasts = <<>>
    /\ \E today \in 1..MaxDate : run = [NoRun EXCEPT !.today = today]
    /\ frame = NoFrame
    /\ supplied = NoneSupplied
    /\ calls = NoCalls

NextCalendar == DefaultWeekStart

SpecCalendar == InitCalendar /\ [][NextCalendar]_vars

----------------------------------------------------------------------------
(* Weather refreshes *)

MaxWeatherRows == 3

RECURSIVE Ascending(_)
\* the dates of a set in ascending order
Ascending(S) ==
    IF S = {} THEN <<>>
    ELSE LET m == CHOOSE x \in S : \A y \in S : x <= y
         IN  <<m>> \o Ascending(S \ {m})

\* a table with one reading per date: temperature t, 1 mm of rain
Readings(dates, t) ==
    [i \in 1..Cardinality(dates) |-> WeatherRow(Ascending(dates)[i], TRUE, t, TRUE, 1)]

Temperatures == {20, 30}

\* tables a user may upload: any dates, each once
ManualFrames == {Readings(D, t) : D \in (SUBSET WeatherDays) \ {{}}, t \in Temperatures}

\* tables fetch_historical_weather may return: dates up to today
HistoryFrames ==
    {Readings(D, t) : D \in (SUBSET {d \in WeatherDays : d <= Today}) \ {{}}, t \in Temperatures}

\* tables fetch_forecast_next_7_days may return: dates from today on
ForecastFrames ==
    {Readings(D, t) : D \in (SUBSET {d \in WeatherDays : d >= Today}) \ {{}}, t \in Temperatures}

DatesOf(df) == {df[i].date : i \in 1..Len(df)}

\* DELETE FROM weather WHERE date >= date('now','-60 days'), then the inserts
ReplaceRecent(w, df, today) == SelectSeq(w, LAMBDA r : r.date < today - 60) \o df

\* DELETE FROM weather WHERE date BETWEEN d0 AND d1, then the inserts
ReplaceRange(w, df) ==
    SelectSeq(w, LAMBDA r : \/ \A d \in DatesOf(df) : r.date < d
                            \/ \A d \in DatesOf(df) : r.date > d) \o df

\* the rows of df become the values last supplied for their dates
Supply(sup, df) ==
    [d \in WeatherDays |->
        IF d \in DatesOf(df) THEN <<df[CHOOSE i \in 1..Len(df) : df[i].date = d]>> ELSE sup[d]]

\* a refresh: get_conn(), the DELETE and INSERTs, commit
Refresh(op, df, stored) ==
    \E m \in {Migrate(IF dbFile THEN schema ELSE {}, sales)} :
        /\ Len(stored) <= MaxWeatherRows
        /\ dbFile' = TRUE
        /\ schema' = m.schema
        /\ config' = IF dbFile THEN config ELSE DefaultConfig
        /\ weather' = IF m.ok THEN stored ELSE weather
        /\ supplied' = IF m.ok THEN Supply(supplied, df) ELSE supplied
        /\ last' = IF m.ok THEN Call(op, "ok", "stored", FALSE)
                   ELSE Call(op, "OperationalError", "get_conn", FALSE)
        /\ UNCHANGED <<connected, items, aliases, sales, models, now, trainings, returned,
                       settings, events, forecasts, run, frame, calls>>

\* upsert_weather(weather_df, source="manual")
UpsertWeather(df) ==
    \E stored \in {ReplaceRecent(weather, df, Today)} : Refresh("upsert_weather", df, stored)

\* upsert_weather_history_to_db(where, start, end), df the table fetched
UpsertWeatherHistoryToDb(df) ==
    \E stored \in {ReplaceRange(weather, df)} :
        Refresh("upsert_weather_history_to_db", df, stored)

\* upsert_weather_forecast_to_db(where), df the table fetched
UpsertWeatherForecastToDb(df) ==
    \E stored \in {ReplaceRange(weather, df)} :
        Refresh("upsert_weather_forecast_to_db", df, stored)

\* A database in use on day Today with an empty weather table.
InitWeather ==
    /\ dbFile = TRUE
    /\ schema = SchemaObjects \ {"uq_sales_date_item"}
    /\ config = DefaultConfig
    /\ connected = TRUE
    /\ items = {}
    /\ aliases = {}
    /\ sales = <<>>
    /\ models = {}
    /\ now = 0
    /\ trainings = 0
    /\ returned = [n \in RawNames |-> NoId]
    /\ last = NoCall
    /\ NoForecastYet

NextWeather ==
    \/ \E df \in ManualFrames : UpsertWeather(df)
    \/ \E df \in HistoryFrames : UpsertWeatherHistoryToDb(df)
    \/ \E df \in ForecastFrames : UpsertWeatherForecastToDb(df)

SpecWeather == InitWeather /\ [][NextWeather]_vars

----------------------------------------------------------------------------
(* Concurrent resolution: resolve_item_id on two connections, statement by  *)
(* statement.  A SELECT reads the committed tables; the first INSERT of a   *)
(* call opens its transaction and takes the database's single write lock,   *)
(* which the commit (or the rollback of a raised call) releases.            *)

\* everything but the catalog tables and the calls in progress
raceFrame == <<dbFile, schema, config, connected, sales, models, now, trainings, returned, last,
               settings, weather, events, forecasts, run, frame, supplied>>

\* raw names of the racing calls: two variants of one product, a name a rule
\* maps to "c", the name "c" itself, and a blank name
RaceNames == { <<"h", "r">>, <<"h", "l">>, <<"r">>, <<"c">>, <<SP>> }

\* rule rows of the database the sessions share
RaceConfigs == { DefaultConfig, {Rule(1, "h", <<"h">>), Rule(2, "r", <<"c">>)} }

\* the sessions whose transaction is open: they hold the write lock
Writers(c) == {s \in Sessions : c[s].pc \in {"insert_alias", "commit", "upsert_commit"}}

\* no local changes
NoFields == [k \in {} |-> 0]

\* the call of session s moves to pc with the fields of its locals changed
Step(s, pc, fields) ==
    /\ calls' = [calls EXCEPT ![s] = [k \in DOMAIN IdleCall |->
                    IF k = "pc" THEN pc
                    ELSE IF k \in DOMAIN fields THEN fields[k] ELSE calls[s][k]]]
    /\ UNCHANGED raceFrame

\* the call raises; its caller's with-block rolls the open transaction back
Raise(s, error) == Step(s, "raised", [error |-> error]) /\ UNCHANGED <<items, aliases>>

\* the call returns id
Return(s, id) == Step(s, "returned", [result |-> id])

\* faulty variant: items.canonical_name is not UNIQUE
ItemInsertOk_NoUnique(its, canonical) == TRUE

\* INSERT INTO items: canonical_name UNIQUE
ItemInsertOk(its, canonical) == \A i \in its : i.canonical_name # canonical

\* resolve_item_id(conn, raw_name, category): alias = (raw_name or "").strip()
CallResolve(s, raw_name, category) ==
    /\ calls[s].pc = "idle"
    /\ UNCHANGED <<items, aliases>>
    /\ IF Strip(raw_name) = <<>>
       THEN Step(s, "raised", [raw_name |-> raw_name, category |-> category,
                               error |-> "ValueError"])
       ELSE Step(s, "alias_lookup", [raw_name |-> raw_name, category |-> category,
                                     alias |-> Strip(raw_name)])

\* item_id = _get_item_id_by_alias(conn, alias); if item_id: return item_id
AliasLookup(s) ==
    /\ calls[s].pc = "alias_lookup"
    /\ UNCHANGED <<items, aliases>>
    /\ \E hit \in {GetItemIdByAlias(aliases, calls[s].alias)} :
          IF hit # NoId THEN Return(s, hit) ELSE Step(s, "rules", NoFields)

\* the rules loop; without a match the alias is its own canonical name
ReadRules(s) ==
    /\ calls[s].pc = "rules"
    /\ UNCHANGED <<items, aliases>>
    /\ \E canonical \in {FirstCanonical(config, calls[s].alias)} :
          IF canonical # <<>> THEN Step(s, "canonical_lookup", [canonical |-> canonical])
          ELSE Step(s, "insert_item", [canonical |-> calls[s].alias])

\* existing = _get_item_id_by_canonical(conn, canonical)
CanonicalLookup(s) ==
    /\ calls[s].pc = "canonical_lookup"
    /\ UNCHANGED <<items, aliases>>
    /\ \E existing \in {GetItemIdByCanonical(items, calls[s].canonical)} :
          IF existing # NoId THEN Step(s, "upsert_select", [existing |-> existing])
          ELSE Step(s, "insert_item", NoFields)

\* upsert_alias: SELECT id FROM item_aliases WHERE alias=?
UpsertSelect(s) ==
    /\ calls[s].pc = "upsert_select"
    /\ UNCHANGED <<items, aliases>>
    /\ IF \E a \in aliases : a.alias = calls[s].alias
       THEN Return(s, calls[s].existing)
       ELSE Step(s, "upsert_insert", NoFields)

\* upsert_alias: INSERT INTO item_aliases, once the write lock is free
UpsertInsert(s) ==
    /\ calls[s].pc = "upsert_insert"
    /\ Writers(calls) = {}
    /\ IF AliasInsertOk(items, aliases, calls[s].alias, calls[s].existing)
       THEN Step(s, "upsert_commit", NoFields) /\ UNCHANGED <<items, aliases>>
       ELSE Raise(s, "IntegrityError")

\* upsert_alias: conn.commit(), then resolve_item_id returns existing
UpsertCommit(s) ==
    /\ calls[s].pc = "upsert_commit"
    /\ aliases' = aliases \cup {[alias |-> calls[s].alias, item_id |-> calls[s].existing]}
    /\ UNCHANGED items
    /\ Return(s, calls[s].existing)

\* _create_item_with_alias: INSERT INTO items, once the write lock is free;
\* item_id = cur.lastrowid
InsertItem(s) ==
    /\ calls[s].pc = "insert_item"
    /\ Writers(calls) = {}
    /\ IF ItemInsertOk(items, calls[s].canonical)
       THEN Step(s, "insert_alias", [item_id |-> NextItemId(items)])
            /\ UNCHANGED <<items, aliases>>
       ELSE Raise(s, "IntegrityError")

\* the item row the open transaction of session s has inserted
InsertedItem(s) ==
    [id |-> calls[s].item_id, canonical_name |-> calls[s].canonical,
     category |-> calls[s].category]

\* _create_item_with_alias: INSERT INTO item_aliases(alias, item_id)
InsertAlias(s) ==
    /\ calls[s].pc = "insert_alias"
    /\ IF AliasInsertOk(items \cup {InsertedItem(s)}, aliases, calls[s].alias, calls[s].item_id)
       THEN Step(s, "commit", NoFields) /\ UNCHANGED <<items, aliases>>
       ELSE Raise(s, "IntegrityError")

\* _create_item_with_alias: conn.commit(); return int(item_id)
Commit(s) ==
    /\ calls[s].pc = "commit"
    /\ items' = items \cup {InsertedItem(s)}
    /\ aliases' = aliases \cup {[alias |-> calls[s].alias, item_id |-> calls[s].item_id]}
    /\ Return(s, calls[s].item_id)

\* an INSERT that finds the write lock held until the connection's timeout
\* raises OperationalError (database is locked)
Locked(s) ==
    /\ calls[s].pc \in {"insert_item", "upsert_insert"}
    /\ Writers(calls) \ {s} # {}
    /\ Raise(s, "OperationalError")

\* A migrated database shared by two connections; the catalog is empty or holds
\* the item "h" an earlier call created.
InitRace ==
    /\ dbFile = TRUE
    /\ schema = SchemaObjects
    /\ config \in RaceConfigs
    /\ connected = TRUE
    /\ \/ items = {} /\ aliases = {}
       \/ /\ items = {[id |-> 1, canonical_name |-> <<"h">>, category |-> "none"]}
          /\ aliases = {[alias |-> <<"h">>, item_id |-> 1]}
    /\ sales = <<>>
    /\ models = {}
    /\ now = 0
    /\ trainings = 0
    /\ returned = [n \in RawNames |-> NoId]
    /\ last = NoCall
    /\ NoForecastYet

NextRace ==
    \E s \in Sessions :
        \/ \E n \in RaceNames, c \in Categories : CallResolve(s, n, c)
        \/ AliasLookup(s)
        \/ ReadRules(s)
        \/ CanonicalLookup(s)
        \/ UpsertSelect(s)
        \/ UpsertInsert(s)
        \/ UpsertCommit(s)
        \/ InsertItem(s)
        \/ InsertAlias(s)
        \/ Commit(s)
        \/ Locked(s)

SpecRace == InitRace /\ [][NextRace]_vars

----------------------------------------------------------------------------
(* Catalog properties *)

HasAlias(als, alias) == \E a \in als : a.alias = alias

CanonicalNameOf(its, id) == (CHOOSE i \in its : i.id = id).canonical_name

\* rule rows whose pattern is found in the alias
MatchingRules(cfg, alias) == {r \in cfg : r.kind = "rule" /\ r.pat \in Range(alias)}

\* the matching rule with the numerically lowest canon_rule_N
LowestRule(M) == CHOOSE r \in M : \A q \in M : r.id <= q.id

\* C1: once resolve_item_id(x) has returned id i, a later resolve_item_id(x)
\* returns i again, through the alias lookup, and adds no Item and no Alias row.
C1_IdempotentResolution ==
    /\ \A x \in RawNames, c \in Categories :
          returned[x] # NoId =>
              LET o == ResolveItemId(items, aliases, config, x, c)
              IN  /\ o.status = "ok"
                  /\ o.id = returned[x]
                  /\ o.items = items
                  /\ o.aliases = aliases
    /\ (last.op = "resolve" /\ last.again) => (last.status = "ok" /\ last.how = "alias")

\* a raw name that had been resolved before was resolved again
C1_Witness == last.op = "resolve" /\ last.again /\ last.status = "ok"

C2_AliasesWellFormed ==
    /\ \A a, b \in aliases : a.alias = b.alias => a = b
    /\ \A a \in aliases : \E i \in items : i.id = a.item_id

\* C2: every alias string is in at most one Alias row, the row points to an
\* existing Item, and a row once created is never changed (or removed).
C2_AliasInvariant ==
    [][C2_AliasesWellFormed' /\ \A a \in aliases : a \in aliases']_vars

\* upsert_alias was called for an alias that already exists and left it alone
C2_Witness ==
    /\ last.op = "upsert_alias" /\ last.status = "ok" /\ last.how = "kept"
    /\ Cardinality(aliases) >= 2

\* C3 (as claimed): when the raw name had no alias and several rules match it,
\* the Item it is resolved to carries the target of the matching rule with the
\* lowest rule number.
C3_RulePrecedence ==
    [][ (last'.op = "resolve" /\ last'.status = "ok" /\ last'.how = "rule") =>
          \A a \in aliases' \ aliases :
              LET M == MatchingRules(config, a.alias)
              IN  Cardinality(M) >= 2 =>
                      CanonicalNameOf(items', a.item_id) = Strip(LowestRule(M).canon) ]_vars

\* C4: two raw names without alias whose first matching rule has the same
\* target C resolve, in either order, to the same id; afterwards exactly one
\* Item is named C and both names are aliases of it; the later call adds no
\* Item, the first call adds the Item only if none was named C.
C4_RuleGrouping ==
    connected =>
    \A a, b \in RawNames, ca, cb \in Categories :
        LET A == Strip(a)
            B == Strip(b)
            C == FirstCanonical(config, A)
        IN  ( /\ A # <<>> /\ B # <<>>
              /\ ~HasAlias(aliases, A) /\ ~HasAlias(aliases, B)
              /\ C # <<>> /\ FirstCanonical(config, B) = C ) =>
            LET o1 == ResolveItemId(items, aliases, config, a, ca)
                o2 == ResolveItemId(o1.items, o1.aliases, config, b, cb)
                named == {i \in o2.items : i.canonical_name = C}
            IN  /\ o1.status = "ok" /\ o2.status = "ok"
                /\ o1.id = o2.id
                /\ Cardinality(named) = 1
                /\ \A i \in named : i.id = o1.id
                /\ o1.aliases = aliases \cup {[alias |-> A, item_id |-> o1.id]}
                /\ o2.aliases = o1.aliases \cup {[alias |-> B, item_id |-> o1.id]}
                /\ o2.items = o1.items
                /\ Cardinality(o1.items) =
                      Cardinality(items) + (IF \E i \in items : i.canonical_name = C THEN 0 ELSE 1)

\* two different names were grouped by their rule under one Item
C4_Witness ==
    /\ last.op = "resolve" /\ last.status = "ok" /\ last.how = "rule"
    /\ \E a1, a2 \in aliases :
          /\ a1.alias # a2.alias /\ a1.item_id = a2.item_id
          /\ FirstCanonical(config, a1.alias) = CanonicalNameOf(items, a1.item_id)
          /\ FirstCanonical(config, a2.alias) = CanonicalNameOf(items, a1.item_id)
          /\ Cardinality({i \in items : i.canonical_name = CanonicalNameOf(items, a1.item_id)}) = 1

\* C5 (as claimed): a call that reaches the fallback (non-empty name, no
\* alias, no rule matched) never fails: it returns an Item whose canonical
\* name is the trimmed name, new or already there, and the alias is recorded.
C5_FallbackResolution ==
    (last.op = "resolve" /\ last.how = "fallback") =>
        /\ last.status = "ok"
        /\ \E a \in aliases : a.alias = CanonicalNameOf(items, a.item_id)

\* the name is empty or made of white space only (a missing name is "")
Blank(name) == \A i \in 1..Len(name) : name[i] = SP

\* C16: resolve_item_id of a name that is empty after trimming fails with the
\* empty-name error at the first step, before any lookup, and leaves Items
\* and Aliases unchanged.
C16_EmptyNameRejected ==
    [][ \A n \in {x \in RawNames : Blank(x)}, c \in Categories :
          (last'.op = "resolve" /\ Resolve(n, c)) =>
              /\ last'.status = "ValueError" /\ last'.how = "empty"
              /\ items' = items /\ aliases' = aliases /\ returned' = returned ]_vars

\* a blank name was rejected by a catalog that already holds items and aliases
C16_Witness ==
    /\ last.op = "resolve" /\ last.status = "ValueError" /\ last.how = "empty"
    /\ items # {} /\ aliases # {}

\* C17: a resolve_item_id call adds at most one Item row and at most one Alias
\* row, adds nothing when an Alias of the trimmed name exists, and never
\* changes or removes an Item or Alias row, whatever category is passed.
C17_BoundedSideEffects ==
    [][ \A n \in RawNames, c \in Categories :
          (last'.op = "resolve" /\ Resolve(n, c)) =>
              /\ items \subseteq items' /\ aliases \subseteq aliases'
              /\ Cardinality(items' \ items) <= 1
              /\ Cardinality(aliases' \ aliases) <= 1
              /\ \A i, j \in items' : i.id = j.id => i = j
              /\ HasAlias(aliases, Strip(n)) => (items' = items /\ aliases' = aliases) ]_vars

\* a second name of an existing Item was resolved by its rule: one more Alias,
\* no new Item
C17_Witness ==
    /\ last.op = "resolve" /\ last.status = "ok" /\ last.how = "rule"
    /\ Cardinality(items) = 1
    /\ Cardinality(aliases) = 2

\* the canonical name resolve_item_id aims at for a raw name: the target of the
\* first matching rule, else the trimmed name
Target(raw_name) ==
    IF FirstCanonical(config, Strip(raw_name)) # <<>>
    THEN FirstCanonical(config, Strip(raw_name))
    ELSE Strip(raw_name)

\* C21: under every interleaving of two resolve_item_id calls on separate
\* connections the catalog never holds two Items with one canonical name nor
\* two Aliases for one raw name, a call that has returned returned the id of
\* the one Item that carries the canonical name of its raw name, and when two
\* calls for one canonical name have both ended exactly one such Item exists.
C21_CanonicalizationRace ==
    /\ \A i, j \in items : i.canonical_name = j.canonical_name => i = j
    /\ \A a, b \in aliases : a.alias = b.alias => a = b
    /\ \A s \in Sessions : calls[s].pc = "returned" =>
          /\ Cardinality({i \in items : i.canonical_name = Target(calls[s].raw_name)}) = 1
          /\ \E i \in items : /\ i.id = calls[s].result
                               /\ i.canonical_name = Target(calls[s].raw_name)
    /\ \A s, t \in Sessions :
          ( /\ s # t
            /\ calls[s].pc \in {"returned", "raised"} /\ calls[s].error # "ValueError"
            /\ calls[t].pc \in {"returned", "raised"} /\ calls[t].error # "ValueError"
            /\ Target(calls[s].raw_name) = Target(calls[t].raw_name) ) =>
          Cardinality({i \in items : i.canonical_name = Target(calls[s].raw_name)}) = 1

\* both sessions resolved new variants of one product at the same time: both
\* missed the alias and the canonical name, one created the Item and returned,
\* the other's INSERT hit the UNIQUE canonical name
C21_Witness ==
    /\ calls[1].pc = "returned" /\ calls[1].result = calls[1].item_id
    /\ calls[2].pc = "raised" /\ calls[2].error = "IntegrityError"
    /\ calls[1].raw_name # calls[2].raw_name
    /\ Target(calls[1].raw_name) = Target(calls[2].raw_name)
    /\ Cardinality(items) = 1

----------------------------------------------------------------------------
(* Ingestion properties *)

\* C6 (as claimed): no two stored sales rows share (date, item_id); an upload
\* that would add a second row for a stored (date, item_id) fails with a
\* constraint violation and leaves the stored rows as they were.
C6_SalesUniqueness ==
    [][ /\ ~DupSales(sales')
        /\ Len(sales') >= Len(sales)
        /\ \A i \in 1..Len(sales) : sales'[i] = sales[i] ]_vars

\* C7 (as claimed): an ingest_sales that fails while resolving names or
\* inserting rows leaves sales, Items and Aliases exactly as before the call.
C7_IngestAllOrNothing ==
    [][ (last'.op = "ingest_sales" /\ last'.status # "ok" /\ last'.how \in {"resolve", "insert"})
            => (items' = items /\ aliases' = aliases /\ sales' = sales) ]_vars

\* the uploaded table has an input error
InputError(t) ==
    \/ ~t.columns
    \/ \E i \in 1..Len(t.rows) : ~t.rows[i].numeric
    \/ t.rows = <<>>
    \/ \E i, j \in 1..Len(t.rows) :
          i # j /\ t.rows[i].date = t.rows[j].date /\ t.rows[i].item_name = t.rows[j].item_name
    \/ \E i \in 1..Len(t.rows) : Blank(t.rows[i].item_name)

\* C18 (as claimed): for a table with an input error (missing column,
\* non-numeric quantity, no rows, duplicate (date, item_name), empty item
\* name) ingest_sales returns a list of messages and inserts nothing into
\* sales, Items or Aliases; it returns the empty list only when every row of
\* the table has been inserted.  Calls that fail to open the database are
\* left aside.
C18_InputErrorsReturned ==
    [][ \A t \in Tables :
          (last'.op = "ingest_sales" /\ last'.how # "get_conn" /\ IngestSales(t)) =>
              /\ InputError(t) =>
                    /\ last'.status = "errors"
                    /\ sales' = sales /\ items' = items /\ aliases' = aliases
              /\ last'.status = "ok" =>
                    /\ Len(sales') = Len(sales) + Len(t.rows)
                    /\ \A i \in 1..Len(t.rows) :
                          /\ sales'[Len(sales) + i].date = t.rows[i].date
                          /\ sales'[Len(sales) + i].item_name = t.rows[i].item_name
                          /\ sales'[Len(sales) + i].quantity_sold = t.rows[i].quantity_sold ]_vars

----------------------------------------------------------------------------
(* Weather properties *)

\* C19 (as claimed): after any sequence of weather refreshes the weather
\* table holds at most one row per date, and for every refreshed date that
\* row is the value most recently supplied for the date.
C19_WeatherOnePerDate ==
    /\ \A i, j \in 1..Len(weather) : weather[i].date = weather[j].date => i = j
    /\ \A i \in 1..Len(weather) :
          supplied[weather[i].date] # <<>> => weather[i] = supplied[weather[i].date][1]

\* the aliases that point to the item
AliasesOf(als, id) == {a.alias : a \in {b \in als : b.item_id = id}}

\* C30: after any sequence of resolve_item_id calls, failed ones included,
\* every Item has an Alias pointing to it, and its canonical name is one of
\* its aliases or the target of a rule whose pattern matches one of them.
C30_ItemsHaveAliases ==
    \A i \in items :
        /\ AliasesOf(aliases, i.id) # {}
        /\ \/ i.canonical_name \in AliasesOf(aliases, i.id)
           \/ \E a \in AliasesOf(aliases, i.id) :
                 \E r \in MatchingRules(config, a) : r.canon = i.canonical_name

\* a resolve_item_id call has just failed on the canonical name of an item
\* that a rule created (its name is none of its aliases), next to an item
\* that is its own alias
C30_Witness ==
    /\ last.op = "resolve" /\ last.status = "IntegrityError"
    /\ \E i \in items : /\ AliasesOf(aliases, i.id) # {}
                         /\ i.canonical_name \notin AliasesOf(aliases, i.id)
    /\ \E i \in items : AliasesOf(aliases, i.id) = {i.canonical_name}

----------------------------------------------------------------------------
(* Forecast properties *)

\* r is q rounded to a nearest integer
NearestInteger(r, q) == 2 * Abs(r * q.d - q.n) <= q.d

\* C9: every daily quantity of the order sheet built by generate_forecast, and
\* of every row stored in forecasts, is 0 or at least min_batch_size; a
\* quantity that is 0 before the floor stays 0, and a positive quantity q
\* becomes max(round(q), min_batch_size), whether or not the item was blended.
C9_MinBatchFloor ==
    /\ \A i \in 1..Len(forecasts) : \A d \in Days :
          forecasts[i].qty[d] = 0 \/ forecasts[i].qty[d] >= settings.min_batch_size
    /\ run.status = "ok" =>
          /\ \A k \in DOMAIN run.out : \A d \in Days :
                /\ run.out[k][d] = 0 \/ run.out[k][d] >= settings.min_batch_size
                /\ run.prefloor[k][d].n = 0 => run.out[k][d] = 0
                /\ run.prefloor[k][d].n > 0 =>
                      \E r \in {run.prefloor[k][d].n \div run.prefloor[k][d].d,
                                (run.prefloor[k][d].n \div run.prefloor[k][d].d) + 1} :
                          /\ NearestInteger(r, run.prefloor[k][d])
                          /\ run.out[k][d] = Max(r, settings.min_batch_size)
          /\ \A k \in DOMAIN run.out :
                \E i \in (Len(forecasts) - Cardinality(DOMAIN run.out) + 1)..Len(forecasts) :
                    forecasts[i].qty = run.out[k]

\* a sheet with a blended and an unblended item, where the floor raised a
\* quantity of 3 to a minimum batch of 6, kept a larger quantity, and kept zeros
C9_Witness ==
    /\ run.status = "ok"
    /\ settings.min_batch_size = 6
    /\ \E k \in run.blended : \E d, e \in Days :
          /\ run.prefloor[k][d].n > 0 /\ run.out[k][d] = 6 /\ RoundHalfEven(run.prefloor[k][d]) < 6
          /\ run.prefloor[k][e].n = 0 /\ run.out[k][e] = 0
    /\ \E k \in DOMAIN run.out \ run.blended : \E d, e, f \in Days :
          /\ run.prefloor[k][d] = Whole(3) /\ run.out[k][d] = 6
          /\ run.prefloor[k][e] = Whole(0) /\ run.out[k][e] = 0
          /\ run.out[k][f] > 6

\* w * model + (1 - w) * baseline
Mix(w, y, x) == Plus(Times(w, Whole(y)), Times(Plus(Whole(1), Times(Whole(-1), w)), x))

\* C10 (as claimed): for a blended item the quantity before the floor is
\* round(w * model + (1 - w) * baseline) clamped at 0; with w = 0 it equals the
\* adjusted baseline exactly and the item's final row equals the row of the
\* forecast made without the model; with w = 1 it equals the model prediction.
C10_BlendLinearity ==
    (run.status = "ok" /\ run.use_ml) =>
        \A k \in run.blended :
            /\ \A d \in Days :
                  \E r \in {Mix(run.ml_blend, run.yhat[k][d], run.adjusted[k][d]).n
                                \div Mix(run.ml_blend, run.yhat[k][d], run.adjusted[k][d]).d,
                            (Mix(run.ml_blend, run.yhat[k][d], run.adjusted[k][d]).n
                                \div Mix(run.ml_blend, run.yhat[k][d], run.adjusted[k][d]).d) + 1} :
                     /\ NearestInteger(r, Mix(run.ml_blend, run.yhat[k][d], run.adjusted[k][d]))
                     /\ run.prefloor[k][d] = Whole(Max(0, r))
            /\ run.ml_blend = Whole(0) =>
                  /\ \A d \in Days : run.prefloor[k][d] = run.adjusted[k][d]
                  /\ run.out[k] = [d \in Days |->
                                      BatchFloor(run.adjusted[k][d], settings.min_batch_size)]
            /\ run.ml_blend = Whole(1) =>
                  \A d \in Days : run.prefloor[k][d] = Whole(run.yhat[k][d])

\* the order sheet of generate_forecast(use_ml=False) in the current state
PureBaseline ==
    Floored(Adjusted(FetchHistory(sales, Today, settings.lookback_weeks), weather, events,
                     settings, NextMonday(Today)),
            settings.min_batch_size)

\* C11: an item without a model row, an item keyed by a name instead of an
\* item id, and every item when use_ml is false, gets the six quantities of
\* the pure baseline path, whatever the blend weight and the models of others.
C11_BlendFrame ==
    run.status = "ok" =>
        \A k \in DOMAIN run.out :
            (~run.use_ml \/ k.id = NoId \/ ~\E m \in models : m.item_id = k.id) =>
                /\ run.out[k] = PureBaseline[k]
                /\ \E i \in (Len(forecasts) - Cardinality(DOMAIN run.out) + 1)..Len(forecasts) :
                      /\ forecasts[i].item_name = DisplayName(items, sales, k)
                      /\ forecasts[i].qty = PureBaseline[k]

\* a run that used the model of one item with full weight and changed its row,
\* next to an item without a model that has an order
C11_Witness ==
    /\ run.status = "ok" /\ run.use_ml /\ run.ml_blend = Whole(1)
    /\ \E k \in run.blended : run.out[k] # PureBaseline[k]
    /\ \E k \in DOMAIN run.out \ run.blended :
          /\ k.id # NoId
          /\ ~\E m \in models : m.item_id = k.id
          /\ \E d \in Days : run.out[k][d] > 0

Notes == {"No typical week yet", "Higher than usual", "Lower than usual", "As expected"}

\* a < b for fractions
Less(a, b) == a.n * b.d < b.n * a.d

Minus(a, b) == Plus(a, Times(Whole(-1), b))

\* the forecasts row the last run stored for item key k
StoredRow(k) ==
    forecasts[CHOOSE i \in (Len(forecasts) - Cardinality(DOMAIN run.out) + 1)..Len(forecasts) :
                  forecasts[i].item_name = DisplayName(items, sales, k)]

\* x lies more than t deviations above m, for a squared deviation var
Above(x, m, t, var) ==
    /\ Less(m, x)
    /\ Less(Times(Times(t, t), var), Times(Minus(x, m), Minus(x, m)))

\* C12: for an item whose weekly totals have mean m > 0 and deviation s > 0
\* the note is "Higher than usual" exactly when the forecast total is above
\* m + t*s, "Lower than usual" exactly when it is below m - t*s, "As expected"
\* otherwise; every item gets exactly one of the four notes.  With m = 100,
\* s = 10, t = 1.5: 116 is Higher, 115 and 85 are As expected, 84 is Lower.
C12_TypicalWeek ==
    run.status = "ok" =>
        \A k \in DOMAIN run.out :
            LET weeks == WeeksOf(sales, k)
                n  == Cardinality(weeks)
                S  == SumTotals(sales, k, weeks, FALSE)
                Q  == SumTotals(sales, k, weeks, TRUE)
                wf == Whole(run.out[k][1] + run.out[k][2] + run.out[k][3]
                            + run.out[k][4] + run.out[k][5] + run.out[k][6])
                t  == settings.std_alert_threshold
                note == StoredRow(k).alerts
            IN  /\ note \in Notes
                /\ Cardinality({i \in 1..Cardinality(DOMAIN run.out) :
                        forecasts[Len(forecasts) - i + 1].item_name
                            = DisplayName(items, sales, k)}) = 1
                /\ (n >= 2 /\ S > 0 /\ n * Q - S * S > 0) =>
                      LET m   == Frac(S, n)
                          var == Frac(n * Q - S * S, n * (n - 1))
                      IN  /\ note = "Higher than usual" <=> Above(wf, m, t, var)
                          /\ note = "Lower than usual"
                                <=> Above(Minus(Times(Whole(2), m), wf), m, t, var)
                          /\ note = "As expected"
                                <=> /\ ~Above(wf, m, t, var)
                                    /\ ~Above(Minus(Times(Whole(2), m), wf), m, t, var)
                /\ (n = 3 /\ S = 300 /\ Q = 30200 /\ t = Frac(3, 2)) =>
                      /\ wf = Whole(116) => note = "Higher than usual"
                      /\ wf = Whole(115) => note = "As expected"
                      /\ wf = Whole(85) => note = "As expected"
                      /\ wf = Whole(84) => note = "Lower than usual"

\* a sheet whose items both have mean 100, deviation 10 and threshold 1.5: one
\* at 115, on the boundary and "As expected", the other at 84 and "Lower"
C12_Witness ==
    /\ run.status = "ok"
    /\ settings.std_alert_threshold = Frac(3, 2)
    /\ \E k1, k2 \in DOMAIN run.out :
          /\ k1 # k2
          /\ SumTotals(sales, k1, WeeksOf(sales, k1), FALSE) = 300
          /\ SumTotals(sales, k1, WeeksOf(sales, k1), TRUE) = 30200
          /\ SumTotals(sales, k2, WeeksOf(sales, k2), FALSE) = 300
          /\ SumTotals(sales, k2, WeeksOf(sales, k2), TRUE) = 30200
          /\ run.out[k1] = <<115, 0, 0, 0, 0, 0>> /\ StoredRow(k1).alerts = "As expected"
          /\ run.out[k2] = <<0, 84, 0, 0, 0, 0>> /\ StoredRow(k2).alerts = "Lower than usual"

\* the observations of the weekday of row i that come before row i
PriorObs(rows, i) ==
    LET before == SelectSeq([j \in 1..(i - 1) |-> j], LAMBDA j : rows[j].weekday = rows[i].weekday)
    IN  [n \in 1..Len(before) |-> rows[before[n]].y]

\* mean of the last (up to) window values of prior, undefined below least
MeanOfLast(prior, window, least) ==
    IF Len(prior) < least THEN NaN
    ELSE LET used == SubSeq(prior, Max(1, Len(prior) - window + 1), Len(prior))
         IN  Num(Frac(SumSeq(used), Len(used)))

\* the frame with observation j, or j and every later one, replaced by v
Changed(rows, j, v, later) ==
    [i \in 1..Len(rows) |->
        IF i = j \/ (later /\ i > j) THEN FrameRow(rows[i].weekday, v) ELSE FrameRow(rows[i].weekday, rows[i].y)]

\* C13: within a weekday, last4_same_wd of observation i is the mean of the
\* (up to 4) observations just before i, undefined with fewer than 2 of them,
\* and last8_same_wd the mean of up to 8 with at least 3; neither changes when
\* observation i or a later one is changed.
C13_NoLeakage ==
    frame.made =>
        /\ \A i \in 1..Len(frame.rows) :
              /\ frame.rows[i].last4_same_wd = MeanOfLast(PriorObs(frame.rows, i), 4, 2)
              /\ frame.rows[i].last8_same_wd = MeanOfLast(PriorObs(frame.rows, i), 8, 3)
        /\ \A j \in 1..Len(frame.rows), v \in {0, 50}, later \in BOOLEAN :
              \A i \in 1..j :
                  /\ MakeRollingFeaturesOf(Changed(frame.rows, j, v, later))[i].last4_same_wd
                        = frame.rows[i].last4_same_wd
                  /\ MakeRollingFeaturesOf(Changed(frame.rows, j, v, later))[i].last8_same_wd
                        = frame.rows[i].last8_same_wd

\* the features of the series 1..10: the tenth has more than 8 observations
\* before it, the sixth more than 4, the second fewer than 2
C13_Witness ==
    /\ frame.made
    /\ Len(frame.rows) = 10
    /\ \A i \in 1..10 : frame.rows[i].y = i /\ frame.rows[i].weekday = 1
    /\ frame.rows[2].last4_same_wd = NaN
    /\ frame.rows[3].last4_same_wd = Num(Frac(3, 2)) /\ frame.rows[3].last8_same_wd = NaN
    /\ frame.rows[6].last4_same_wd = Num(Frac(7, 2))
    /\ frame.rows[10].last4_same_wd = Num(Frac(15, 2))
    /\ frame.rows[10].last8_same_wd = Num(Frac(11, 2))

\* C14: generate_forecast never changes or removes a stored forecast row; a
\* call over a non-empty history appends exactly one row per item of that
\* history, for the target week, all with one created_at; a call over an
\* empty history appends nothing and returns an empty table.
C14_ForecastLogAppendOnly ==
    [][ (run'.n = run.n + 1 /\ run'.status # "OperationalError") =>
          LET h     == FetchHistory(sales, Today, settings.lookback_weeks)
              added == SubSeq(forecasts', Len(forecasts) + 1, Len(forecasts'))
          IN  /\ Len(forecasts') >= Len(forecasts)
              /\ SubSeq(forecasts', 1, Len(forecasts)) = forecasts
              /\ h = <<>> => (added = <<>> /\ run'.out = <<>>)
              /\ h # <<>> =>
                    /\ Len(added) = Cardinality(ItemKeys(h))
                    /\ DOMAIN run'.out = ItemKeys(h)
                    /\ \A k \in ItemKeys(h) :
                          Cardinality({i \in 1..Len(added) :
                              /\ added[i].item_name = DisplayName(items, h, k)
                              /\ added[i].qty = run'.out[k]}) = 1
                    /\ \A i \in 1..Len(added) :
                          /\ added[i].week_start_date = NextMonday(Today)
                          /\ added[i].created_at = added[1].created_at ]_vars

\* two runs over a history of three items have left six rows
C14_Witness ==
    /\ run.n = 2 /\ run.status = "ok"
    /\ Cardinality(DOMAIN run.out) = 3
    /\ Len(forecasts) = 6
    /\ \A i \in 1..3 : forecasts[i].item_name = forecasts[i + 3].item_name

\* the weekday baseline of the history generate_forecast reads, before weather
\* and events
RawBaseline == WeekdayBaseline(FetchHistory(sales, Today, settings.lookback_weeks))

\* rows of the table that fall on the day-th day of the target week
RowsOfDay(rows, day) == SelectSeq(rows, LAMBDA r : r.date = NextMonday(Today) + day - 1)

\* the quantity scaled by 1 + coef * (value - anchor) / 10 and rounded half-even
ScaledBy(x, coef, value, anchor) ==
    Whole(RoundHalfEven(Times(x, Plus(Whole(1), Times(coef, Frac(value - anchor, 10))))))

C23_SixPredictions ==
    (run.status = "ok" /\ run.use_ml) =>
        \A k \in IntegerKeys(FetchHistory(sales, Today, settings.lookback_weeks)) :
            (\E m \in models : m.item_id = k.id) =>
                /\ PredictRows(weather, events, NextMonday(Today)) = 6
                /\ k \in run.blended

\* C24: the week generate_forecast targets when no week_start is given is a
\* Monday (day 1, 8, 15, ..) d with today <= d < today + 7: today itself when
\* today is a Monday, else the first Monday after it.
C24_DefaultTargetWeek ==
    (run.status = "none" /\ run.week_start # NoDate) =>
        /\ run.week_start % 7 = 1
        /\ run.today <= run.week_start
        /\ run.week_start < run.today + 7
        /\ run.today % 7 = 1 => run.week_start = run.today

\* called on a Tuesday, the default week starts six days later
C24_Witness ==
    run.status = "none" /\ run.today = 16 /\ run.week_start = 22

\* positions in h of the observations of item id on the day-th weekday (1 =
\* Monday: the days 1, 8, 15, ..)
ObservationsOf(h, id, day) ==
    {j \in 1..Len(h) : h[j].item_id = id /\ h[j].date % 7 = day % 7}

\* 1 for the most recent of these observations, 2 for the one before, ..
Recency(h, S, j) == 1 + Cardinality({l \in S : h[l].date > h[j].date})

\* weights proportional to 0.5^(k-1) for the k-th most recent observation
HalvingWeights == <<128, 64, 32, 16, 8, 4, 2, 1>>

\* the weighted mean of the (at most) 8 most recent observations in S; 0 for none
WeightedRecentMean(h, S) ==
    IF S = {} THEN Whole(0)
    ELSE Frac(SumSeq([k \in 1..8 |->
                        IF \E j \in S : Recency(h, S, j) = k
                        THEN HalvingWeights[k] * h[CHOOSE j \in S : Recency(h, S, j) = k].quantity_sold
                        ELSE 0]),
              SumSeq([k \in 1..8 |-> IF k <= Cardinality(S) THEN HalvingWeights[k] ELSE 0]))

\* the history with the quantity of row j replaced by v
Requantified(h, j, v) == [h EXCEPT ![j].quantity_sold = v]

\* C26: for every item and weekday Mon..Sat the raw baseline is the mean of
\* the 8 most recent observations of that item on that weekday, the k-th most
\* recent weighted in proportion to 0.5^(k-1), and 0 without observations;
\* changing an observation that is older than those 8, of another weekday (a
\* Sunday too) or of another item leaves it as it is; a forecast without
\* weather and events is built on exactly these values.
C26_WeekdayBaseline ==
    LET h == FetchHistory(sales, Today, settings.lookback_weeks)
    IN  /\ \A k \in DOMAIN WeekdayBaseline(h) : \A d \in Days :
              /\ WeekdayBaseline(h)[k][d] = WeightedRecentMean(h, ObservationsOf(h, k.id, d))
              /\ \A j \in 1..Len(h), v \in {0, 99} :
                    ( \/ j \notin ObservationsOf(h, k.id, d)
                      \/ Recency(h, ObservationsOf(h, k.id, d), j) > 8 ) =>
                        WeekdayBaseline(Requantified(h, j, v))[k][d] = WeekdayBaseline(h)[k][d]
        /\ (run.status = "ok" /\ weather = <<>> /\ events = <<>>) =>
              \A k \in DOMAIN run.adjusted : \A d \in Days :
                 LET x == WeightedRecentMean(h, ObservationsOf(h, k.id, d))
                 IN  run.adjusted[k][d] = IF x.n < 0 THEN Whole(0) ELSE x

\* a forecast was built on ten Mondays of an item (the two oldest do not
\* count: 2303 / 255 is the weighted mean of 3 .. 10), next to Sunday sales of
\* the item and sales of another item; its Tuesday has no observation
C26_Witness ==
    /\ run.status = "ok" /\ weather = <<>> /\ events = <<>>
    /\ Len(sales) = 15
    /\ run.adjusted[[id |-> 1, name |-> <<>>]][1] = Frac(2303, 255)
    /\ run.adjusted[[id |-> 1, name |-> <<>>]][2] = Whole(0)
    /\ run.adjusted[[id |-> 2, name |-> <<>>]][1] = Frac(110, 3)

\* the events dated on the given day, in table order
EventsOn(e, date) == SelectSeq(e, LAMBDA r : r.date = date)

\* the baseline after the weather step of the last call
AfterWeather ==
    ApplyWeather(RawBaseline, weather, run.week_start, settings.coef_temp, settings.coef_rain)

\* C27: whatever week_start generate_forecast was called with, once there is
\* history the event step does not fail; a day of the sheet on whose date
\* (within week_start .. week_start + 5) no event falls keeps its quantity, a
\* day with one event has it multiplied by (1 + uplift_pct/100) and rounded,
\* and events dated outside the six days change nothing.
C27_EventAdjustment ==
    (run.n > 0 /\ run.status \notin {"OperationalError", "empty"}) =>
        /\ run.status = "ok"
        /\ \A k \in DOMAIN run.adjusted : \A d \in Days :
              LET on == EventsOn(events, ColumnDate(run.week_start, d))
              IN  /\ on = <<>> => run.adjusted[k][d] = AfterWeather[k][d]
                  /\ Len(on) = 1 =>
                        run.adjusted[k][d] =
                            Whole(RoundHalfEven(Times(AfterWeather[k][d],
                                                      Frac(100 + on[1].uplift_pct, 100))))

\* the quantity of one day after both scalings, before the clamp
TwiceScaled(x, rows) ==
    LET t == IF rows # <<>> /\ rows[1].has_temp
             THEN ScaledBy(x, settings.coef_temp, rows[1].max_temp, 20) ELSE x
    IN  IF rows # <<>> /\ rows[1].has_rain
        THEN ScaledBy(t, settings.coef_rain, rows[1].rain_mm, 1) ELSE t

\* C28: in a forecast the quantity of every item and day after the weather
\* step is the baseline rounded to an integer after the temperature scaling
\* and again after the rainfall scaling, negative results raised to zero; no
\* quantity is negative after the step, whatever the baseline and the factors.
C28_WeatherRoundingClamp ==
    run.status = "ok" =>
        \A k \in DOMAIN RawBaseline : \A d \in Days :
            LET rows == SelectSeq(weather, LAMBDA r : r.date = ColumnDate(run.week_start, d))
                x == TwiceScaled(RawBaseline[k][d], rows)
            IN  /\ AfterWeather[k][d] = IF x.n < 0 THEN Whole(0) ELSE x
                /\ AfterWeather[k][d].n >= 0
                /\ (rows # <<>> /\ (rows[1].has_temp \/ rows[1].has_rain)) => AfterWeather[k][d].d = 1
                /\ events = <<>> => run.adjusted[k][d] = AfterWeather[k][d]

\* a forecast for an item whose Wednesday baseline is negative (refunds) and
\* whose Monday meets a negative temperature factor: both days scale to a
\* negative integer and end at zero
C28_Witness ==
    /\ run.status = "ok" /\ events = <<>> /\ run.week_start = NextMonday(Today)
    /\ RowsOfDay(weather, 1) # <<>>
    /\ \E k \in DOMAIN run.adjusted :
          /\ RawBaseline[k][3].n < 0 /\ RawBaseline[k][1].n > 0
          /\ WeatherFactor(settings.coef_temp, RowsOfDay(weather, 1)[1].max_temp, 20).n < 0
          /\ TwiceScaled(RawBaseline[k][1], RowsOfDay(weather, 1)).n < 0
          /\ TwiceScaled(RawBaseline[k][3], RowsOfDay(weather, 3)).n < 0
          /\ run.adjusted[k][1] = Whole(0) /\ run.adjusted[k][3] = Whole(0)

\* the key the history view groups the stored rows by
RunGroup(row) == <<row.week_start_date, row.created_at>>

\* C29: the rows a generate_forecast call stores fall into a group of
\* (week_start_date, created_at) that holds no row of an earlier call, also
\* when the earlier call was for the same week a moment before.
C29_RunsReconstructible ==
    [][(last'.op = "generate_forecast" /\ last'.how = "stored") =>
          \A i \in 1..Len(forecasts) : \A j \in (Len(forecasts) + 1)..Len(forecasts') :
              RunGroup(forecasts'[j]) # RunGroup(forecasts[i])]_vars

----------------------------------------------------------------------------
(* Trainer properties *)

\* C25 (as claimed): the cv error is undefined for fewer than 30 samples (so a
\* model of 20..29 samples is stored with cv_mape null); from 30 samples on it
\* is the average of the folds with training prefix floor(n * f), f = 0.6,
\* 0.75, 0.9, a fold being counted only if it has at least 10 test samples;
\* in a counted fold every training row precedes every test row; a true value
\* of 0 is divided by 1.
C25_RollingOriginCv ==
    frame.cv.done =>
        LET n == Len(frame.rows)
        IN  /\ n < 30 => ~frame.cv.cv_mape.defined
            /\ n >= 30 =>
                  /\ \A f \in frame.cv.folds :
                        /\ \E g \in {Frac(3, 5), Frac(3, 4), Frac(9, 10)} :
                              f.train = 1..((n * g.n) \div g.d)
                        /\ f.test = {i \in 1..n : i \notin f.train}
                        /\ \A a \in f.train, b \in f.test : a < b
                        /\ Cardinality(f.test) >= 10
                  /\ \A g \in {Frac(3, 5), Frac(3, 4), Frac(9, 10)} :
                        n - ((n * g.n) \div g.d) >= 10 =>
                            \E f \in frame.cv.folds : f.train = 1..((n * g.n) \div g.d)
                  /\ frame.cv.cv_mape.defined <=> frame.cv.folds # {}
                  /\ (\A i \in 1..n : frame.rows[i].y = 0) =>
                        \A p \in PredictedValues :
                            (\A f \in frame.cv.folds : f.pred = p) =>
                                frame.cv.cv_mape = Num(Whole(100 * p))


\* the value _make_rolling_features writes for the next observation of weekday
\* wd after the rows: the mean of the last window observations of that weekday
RecentAverage(rows, wd, window, min_periods) ==
    IF Len(MaskedY(rows, wd)) < min_periods THEN NaN
    ELSE RollingMean(MaskedY(rows, wd), window, min_periods)[Len(MaskedY(rows, wd))]

\* C22 (as claimed): for each target day Mon..Sat the row predict_next_week_for_item
\* builds has the weekday one-hot training sets for that weekday (Monday..
\* Saturday are wd_1..wd_6: the weekday value of training is strftime('%w'),
\* date % 7 here), and its last4_same_wd / last8_same_wd are the item's most
\* recent rolling averages of that weekday wherever the history defines them.
C22_PredictionFeatures ==
    frame.future # <<>> =>
        \A d \in 1..6 :
            LET wk == SqlWeekday(NextMonday(Today) + d - 1)
                r4 == RecentAverage(frame.rows, wk, 4, 2)
                r8 == RecentAverage(frame.rows, wk, 8, 3)
            IN  /\ frame.future[d].wd = WeekdayOneHot(wk)
                /\ r4.defined => frame.future[d].last4_same_wd = r4
                /\ r8.defined => frame.future[d].last8_same_wd = r8


\* number of stored rows of the item that do not fall on a Sunday (day 7, 14, ..)
NonSundayRows(item_id) ==
    Cardinality({j \in 1..Len(sales) : sales[j].item_id = item_id /\ sales[j].date % 7 # 0})

\* C15: train_model_for_item returns saved=false with n_samples=0 for an item
\* without history and saved=false with fewer than 20 non-Sunday rows, and
\* then leaves the models store as it was; it returns saved=true, and writes
\* the model, exactly when at least 20 usable rows exist.
C15_InsufficientData ==
    [][ \A i \in TrainItems : TrainModelForItem(i) =>
          LET o == TrainOutcome(schema, sales, models, i, trainings + 1, now + 1)
          IN  /\ (\A j \in 1..Len(sales) : sales[j].item_id # i) =>
                    /\ last'.status = "unsaved" /\ o.n_samples = 0 /\ ~o.saved
                    /\ models' = models
              /\ NonSundayRows(i) < 20 => (last'.status = "unsaved" /\ ~o.saved /\ models' = models)
              /\ last'.status = "saved" <=> NonSundayRows(i) >= 20
              /\ last'.status = "saved" =>
                    /\ o.saved
                    /\ \E m \in models' : m.item_id = i /\ m.artifact = trainings'
                                              /\ m.n_samples = NonSundayRows(i)
                    /\ \A m \in models : m.item_id # i => m \in models' ]_vars

\* an item with 19 usable rows was not trained while the model of the other
\* item, trained before, is still there
C15_Witness ==
    /\ last.op = "train" /\ last.status = "unsaved" /\ last.how = "few"
    /\ \E i \in TrainItems : NonSundayRows(i) = MinTrainRows - 1
    /\ Cardinality(models) = 1

====
